---- MODULE Spec2Model ----
(***************************************************************************)
(* Model of the trax layer core: Layer (trax/layers/base.py) and the      *)
(* Serial combinator with its stack helpers (trax/layers/combinators.py). *)
(*                                                                         *)
(* Python values (tensors, ShapeDtype signatures, tuples, lists, weights,  *)
(* states) are records with the three fields tag, id and items, so that    *)
(* any two values can be compared.  PRNG keys are sequences of integers:   *)
(* a seed is <<s>> and the i-th of the n keys of split(key, n) is the key  *)
(* extended by the code of (n, i).                                         *)
(***************************************************************************)
EXTENDS Integers, Sequences, FiniteSets, TLC

VARIABLES
  sublayers,         \* Layer._sublayers of every instance (fixed at construction)
  built,             \* the constructor call that made the combinator under test
  _rng,              \* Layer._rng, the seed cursor (None until seeded)
  _weights,          \* Layer._weights, the cached weights
  _state,            \* Layer._state, the cached state
  _input_signature,  \* Layer._input_signature
  _init_finished,    \* Layer._init_finished, the one-shot latch
  issued,            \* history: keys returned by new_rng/new_rngs, per layer
  assigned,          \* history: cursors _set_rng_recursive gave to the sublayers
  last,              \* the last public call: its arguments and what it returned
  nops               \* number of public calls made so far

vars == <<sublayers, built, _rng, _weights, _state, _input_signature, _init_finished,
          issued, assigned, last, nops>>

----------------------------------------------------------------------------
(* Bounds of the model *)

MaxOps == 2        \* public calls made on the layers of the tree in one run
MaxLayers == 3     \* longest sublayer list of the Serial under test
MaxDraws == 2      \* new_rng/new_rngs calls per layer
MaxN == 2          \* largest n of new_rngs(n)
MaxVer == 2        \* forward passes that update a stateful leaf's state

----------------------------------------------------------------------------
(* Python values *)

Val(t, i, xs) == [tag |-> t, id |-> i, items |-> xs]

Tensor(i) == Val("tensor", i, <<>>)
ShapeDtype(i) == Val("ShapeDtype", i, <<>>)
Tup(xs) == Val("tuple", 0, xs)
List(xs) == Val("list", 0, xs)
PyNone == Val("None", 0, <<>>)
Raise(kind) == Val("raise", 0, <<Val(kind, 0, <<>>)>>)

EMPTY_WEIGHTS == Tup(<<>>)
EMPTY_STATE == Tup(<<>>)

IsSeq(v) == v.tag \in {"tuple", "list"}
IsRaise(v) == v.tag = "raise"

\* The element of a one-element set.  The({e(x) : x \in {v}}) computes v once
\* and e on its value, where LET x == v IN e(x) computes v at every use of x.
The(S) == CHOOSE x \in S : TRUE

Min(a, b) == IF a < b THEN a ELSE b
Max(a, b) == IF a > b THEN a ELSE b

\* The position that the bound b of a Python slice takes in a sequence of
\* len items: a negative bound counts from the end, and a bound beyond either
\* end is that end.
Bound(b, len) == IF b < 0 THEN Max(len + b, 0) ELSE Min(b, len)

\* xs[:n] of Python: a tuple/list keeps its type and is truncated silently;
\* on a tensor it slices the tensor's first axis and yields a tensor.
SliceTo(xs, n) ==
  IF IsSeq(xs)
    THEN Val(xs.tag, 0, SubSeq(xs.items, 1, Bound(n, Len(xs.items))))
  ELSE Val("tensor_slice", n, <<xs>>)

\* xs[n:] of Python.
SliceFrom(xs, n) ==
  IF IsSeq(xs)
    THEN Val(xs.tag, 0,
             SubSeq(xs.items, Bound(n, Len(xs.items)) + 1, Len(xs.items)))
  ELSE Val("tensor_slice", -1 - n, <<xs>>)

\* xs[0] of Python on a tuple/list.
Item0(xs) ==
  IF IsSeq(xs)
    THEN IF Len(xs.items) = 0 THEN Raise("IndexError") ELSE xs.items[1]
    ELSE Val("tensor_slice", 0, <<xs>>)

\* xs[i] of Python (i counts from 0).
ItemAt(xs, i) ==
  IF IsSeq(xs)
    THEN IF i >= Len(xs.items) THEN Raise("IndexError") ELSE xs.items[i + 1]
    ELSE Val("tensor_slice", i, <<xs>>)

\* xs[start:end] of Python.
Slice(xs, start, end) ==
  IF IsSeq(xs)
    THEN Val(xs.tag, 0, SubSeq(xs.items, start + 1, Min(end, Len(xs.items))))
    ELSE Val("tensor_slice", start, <<xs, Tensor(end)>>)

\* Numbers, and arrays of them along axis 0.
Num(n) == Val("num", n, <<>>)
Array(elems) == Val("array", 0, elems)

\* a + b of Python where a is a tuple: concatenation with a tuple, TypeError
\* with a list, and the array's own (broadcasting) addition with a tensor.
PyAdd(a, b) ==
  IF IsSeq(a) /\ IsSeq(b)
    THEN IF a.tag = b.tag THEN Val(a.tag, 0, a.items \o b.items)
         ELSE Raise("TypeError")
    ELSE IF a.tag = "num" /\ b.tag = "num" THEN Num(a.id + b.id)
    ELSE Val("add", 0, <<a, b>>)

----------------------------------------------------------------------------
(* PRNG keys *)

None == <<>>
DefaultSeed == 0
get_prng(seed) == <<seed>>
split(key, n) == [i \in 1..n |-> Append(key, 10 * n + i)]
RngStub == <<-1>>

----------------------------------------------------------------------------
(* The layer instances.  F is a leaf class with trainable weights and a    *)
(* state it updates on every forward pass; G is a leaf class with weights  *)
(* only; Swap, Drop, Dup are the layers of combinators.py and Prod is a    *)
(* zero-input producer, all four made by the base.layer decorator.         *)
(* Inner = Serial(F, G) and Root = Serial(Inner, F) form a tree in which   *)
(* the instance F sits at two positions; S is the Serial under test, whose *)
(* sublayer list is drawn at construction.  P is the Parallel under test   *)
(* and Sub1, Sub2, ... are the Serial instances that Parallel's            *)
(* constructor makes of the arguments that are None or lists.  Add and     *)
(* Gate are the layers of combinators.py of two and of three inputs.       *)
(* Cell is a layer of one input and two outputs, the next value and a side *)
(* output, and Sw the Serial that SerialWithSideOutputs returns, with the  *)
(* Selections Sel1, Sel2, ... after its layers.                            *)
(* Acc is the layer add of Scan's docstring and Sc the Scan under test.  Br *)
(* is the Serial that Branch returns, Body the Serial that Residual makes  *)
(* of its layers and Res the Serial of a Residual.  Sel is a               *)
(* Selection, the layer Select(idxs, n_in) returns: built.select holds its *)
(* idxs and the n_in it was made with.                                     *)

LeafLayers ==
  {"F", "G", "Swap", "Drop", "Dup", "Prod", "Add", "Gate", "Acc", "Cell"}
ScanLayers == {"Sc"}
SelectLayers == {"Sel", "Sel1", "Sel2", "Sel3", "Sel4"}
SerialLayers ==
  {"Inner", "Root", "S", "Sub1", "Sub2", "Sub3", "Sub4", "Body", "Br", "Res",
   "Sw"}
ParallelLayers == {"P"}
Layers ==
  LeafLayers \cup SelectLayers \cup SerialLayers \cup ParallelLayers
    \cup ScanLayers
NetLayers == {"F", "G", "Inner", "Root"}
StackLeaves == {"G", "Swap", "Drop", "Dup", "Prod"}
Decorated ==
  {"Swap", "Drop", "Dup", "Prod", "Add", "Gate", "Acc", "Cell"}
    \cup SelectLayers

Idx(l) ==
  CASE l = "F" -> 1 [] l = "G" -> 2 [] l = "Swap" -> 3 [] l = "Drop" -> 4
    [] l = "Dup" -> 5 [] l = "Add" -> 6 [] l = "Prod" -> 7 [] l = "Inner" -> 8
    [] l = "Root" -> 9 [] l = "Gate" -> 11 [] l = "Body" -> 12
    [] l = "Acc" -> 13 [] l = "Cell" -> 14 [] OTHER -> 10

\* Layer.__init__(n_in, n_out) of each leaf.
LeafArity(l) ==
  CASE l \in SelectLayers ->
         <<built.select[l].n_in, Len(built.select[l].idxs)>>
    [] l = "Swap" -> <<2, 2>> [] l = "Drop" -> <<1, 0>> [] l = "Dup" -> <<1, 2>>
    [] l = "Add" -> <<2, 1>> [] l = "Gate" -> <<3, 1>> [] l = "Acc" -> <<2, 2>>
    [] l = "Cell" -> <<1, 2>>
    [] l = "Prod" -> <<0, 1>> [] OTHER -> <<1, 1>>

RECURSIVE n_in(_), n_out(_), _n_inputs_n_outputs_loop(_, _, _, _)

\* The loop of Serial._n_inputs_n_outputs from sublayer i on.
_n_inputs_n_outputs_loop(layers, i, running_max, running_total) ==
  IF i > Len(layers) THEN <<running_max, running_max - running_total>>
  ELSE LET total1 == running_total + n_in(layers[i])
           max1 == Max(running_max, total1)
       IN _n_inputs_n_outputs_loop(layers, i + 1, max1, total1 - n_out(layers[i]))

\* The same loop with the running maximum taken after n_out is subtracted.
_n_inputs_n_outputs_late_max(layers) ==
  LET RECURSIVE Loop(_, _, _)
      Loop(i, running_max, running_total) ==
        IF i > Len(layers) THEN <<running_max, running_max - running_total>>
        ELSE LET total1 == running_total + n_in(layers[i]) - n_out(layers[i])
             IN Loop(i + 1, Max(running_max, total1), total1)
  IN Loop(1, 0, 0)

_n_inputs_n_outputs(layers) ==
  _n_inputs_n_outputs_loop(layers, 1, 0, 0)

\* Serial.__init__: the Layer defaults (1, 1) unless there are sublayers.
SerialArity(l) ==
  IF Len(sublayers[l]) > 0 THEN _n_inputs_n_outputs(sublayers[l]) ELSE <<1, 1>>

\* Parallel.__init__: the sums of the sublayers' n_in and n_out.
ParallelArity(l) ==
  LET RECURSIVE SumNIn(_), SumNOut(_)
      SumNIn(i) == IF i = 0 THEN 0 ELSE SumNIn(i - 1) + n_in(sublayers[l][i])
      SumNOut(i) == IF i = 0 THEN 0 ELSE SumNOut(i - 1) + n_out(sublayers[l][i])
  IN <<SumNIn(Len(sublayers[l])), SumNOut(Len(sublayers[l]))>>

\* n_in and n_out as the constructors set them; Scan.__init__ takes those of
\* its sublayer.
n_in(l) ==
  IF l \in SerialLayers THEN SerialArity(l)[1]
  ELSE IF l \in ParallelLayers THEN ParallelArity(l)[1]
  ELSE IF l \in ScanLayers THEN n_in(sublayers[l][1])
  ELSE LeafArity(l)[1]
n_out(l) ==
  IF l \in SerialLayers THEN SerialArity(l)[2]
  ELSE IF l \in ParallelLayers THEN ParallelArity(l)[2]
  ELSE IF l \in ScanLayers THEN n_out(sublayers[l][1])
  ELSE LeafArity(l)[2]

----------------------------------------------------------------------------
(* Construction.  The arguments of a constructor are Python objects: layer *)
(* instances (leaves here), None, lists and tuples of objects, and objects *)
(* that are no layers.  A constructor yields the sublayer lists of the     *)
(* instances it made (subs, keyed by instance), or raised is TRUE.         *)

LayerObj(l) == Val("layer", Idx(l), <<>>)
NonLayer == Val("object", 0, <<>>)
NameOf(obj) == CHOOSE l \in LeafLayers \cup {"Body"} : Idx(l) = obj.id
IsLayer(obj) == obj.tag = "layer"

\* The Serial instance l of the leaves names as an argument: it carries its
\* sublayers.
SerialObj(l, names) ==
  Val("layer", Idx(l), [i \in 1..Len(names) |-> LayerObj(names[i])])

\* The Serial instance that Parallel._validate makes of its i-th argument.
Slot(i) ==
  CASE i = 1 -> "Sub1" [] i = 2 -> "Sub2" [] i = 3 -> "Sub3" [] OTHER -> "Sub4"

RECURSIVE _deep_flatten(_)

\* _deep_flatten(items), items being a sequence of objects.
_deep_flatten(items) ==
  IF items = <<>> THEN <<>>
  ELSE (IF IsSeq(Head(items)) THEN _deep_flatten(Head(items).items)
        ELSE <<Head(items)>>) \o _deep_flatten(Tail(items))

\* Serial._ensure_flat(layers) that leaves out what is no layer.
_ensure_flat_drops_objects(layers) ==
  LET flat == IF Len(layers) = 1 /\ layers[1] = PyNone THEN <<>>
              ELSE _deep_flatten(layers)
  IN List(SelectSeq(flat, IsLayer))

\* Serial._ensure_flat(layers): the flat list of layers, or ValueError.
_ensure_flat(layers) ==
  LET flat == IF Len(layers) = 1 /\ layers[1] = PyNone THEN <<>>
              ELSE _deep_flatten(layers)
  IN IF \E i \in 1..Len(flat) : ~IsLayer(flat[i]) THEN Raise("ValueError")
     ELSE List(flat)

Failed == [raised |-> TRUE, layers |-> <<>>, subs |-> <<>>]

\* Select(idxs, n_in) as instance l; n_in is <<>> for None.  max() of an
\* empty list raises ValueError.
SelectNew(l, idxs, given_n_in) ==
  LET RECURSIVE max(_)
      max(k) == IF k = 1 THEN idxs[1] ELSE Max(max(k - 1), idxs[k])
  IN IF given_n_in = <<>> /\ idxs = <<>> THEN [raised |-> TRUE, select |-> <<>>]
     ELSE [raised |-> FALSE,
           select |-> (l :> [idxs |-> idxs,
                             n_in |-> IF given_n_in = <<>> THEN max(Len(idxs)) + 1
                                      ELSE given_n_in[1]])]

\* Serial(args...) as instance l.
SerialNew(l, args) ==
  LET flat == _ensure_flat(args)
      names == [i \in 1..Len(flat.items) |-> NameOf(flat.items[i])]
  IN IF IsRaise(flat) THEN Failed
     ELSE [raised |-> FALSE, layers |-> names, subs |-> (l :> names)]

\* n_in of a Serial just made of the sublayers names (Serial.__init__).
NewSerialNIn(names) ==
  IF Len(names) > 0 THEN _n_inputs_n_outputs(names)[1] ELSE 1

\* obj.n_in of an argument that is a layer.
ArgNIn(obj) ==
  IF NameOf(obj) \in SerialLayers
    THEN NewSerialNIn([i \in 1..Len(obj.items) |-> NameOf(obj.items[i])])
    ELSE LeafArity(NameOf(obj))[1]

\* Parallel._validate(layers) that takes None for an object that is no layer.
_validate_none_is_object(layers) ==
  LET RECURSIVE Loop(_, _, _)
      Loop(i, names, subs) ==
        IF i > Len(layers)
          THEN [raised |-> FALSE, layers |-> names, subs |-> subs]
        ELSE IF layers[i] = List(<<>>)
          THEN Loop(i + 1, Append(names, Slot(i)), subs @@ (Slot(i) :> <<>>))
        ELSE IF IsSeq(layers[i])
          THEN IF SerialNew(Slot(i), <<layers[i]>>).raised THEN Failed
               ELSE IF NewSerialNIn(SerialNew(Slot(i), <<layers[i]>>).layers) = 0
                 THEN Failed
               ELSE Loop(i + 1, Append(names, Slot(i)),
                         subs @@ SerialNew(Slot(i), <<layers[i]>>).subs)
        ELSE IF ~IsLayer(layers[i]) THEN Failed
        ELSE IF ArgNIn(layers[i]) = 0 THEN Failed
        ELSE Loop(i + 1, Append(names, NameOf(layers[i])), subs)
  IN IF Len(layers) < 2 THEN Failed ELSE Loop(1, <<>>, <<>>)

\* Parallel._validate(layers): ValueError for fewer than two elements, for an
\* element that is no layer, None, list or tuple, and for an element whose
\* n_in is 0 once None and [] are Serial(None) and a list or tuple is
\* Serial(obj).
_validate(layers) ==
  LET RECURSIVE Loop(_, _, _)
      Loop(i, names, subs) ==
        IF i > Len(layers)
          THEN [raised |-> FALSE, layers |-> names, subs |-> subs]
        ELSE IF layers[i] = PyNone \/ layers[i] = List(<<>>)
          THEN Loop(i + 1, Append(names, Slot(i)), subs @@ (Slot(i) :> <<>>))
        ELSE IF IsSeq(layers[i])
          THEN IF SerialNew(Slot(i), <<layers[i]>>).raised THEN Failed
               ELSE IF NewSerialNIn(SerialNew(Slot(i), <<layers[i]>>).layers) = 0
                 THEN Failed
               ELSE Loop(i + 1, Append(names, Slot(i)),
                         subs @@ SerialNew(Slot(i), <<layers[i]>>).subs)
        ELSE IF ~IsLayer(layers[i]) THEN Failed
        ELSE IF ArgNIn(layers[i]) = 0 THEN Failed
        ELSE Loop(i + 1, Append(names, NameOf(layers[i])), subs)
  IN IF Len(layers) < 2 THEN Failed ELSE Loop(1, <<>>, <<>>)

\* Parallel(args...) as instance l.
ParallelNew(l, args) ==
  LET v == _validate(args)
  IN IF v.raised THEN Failed
     ELSE [raised |-> FALSE, layers |-> v.layers, subs |-> v.subs @@ (l :> v.layers)]

\* The list of 1 .. n for list(range(n)).
Range_from_one(n) == [i \in 1..n |-> i]

\* list(range(n))
Range(n) == [i \in 1..n |-> i - 1]

\* Branch(args...) as the Serial l of the Select Sel and the Parallel P.
BranchNew(l, args) ==
  LET NIn(par, name) ==
        IF name \in DOMAIN par.subs THEN NewSerialNIn(par.subs[name])
        ELSE IF name = "Body"
          THEN ArgNIn(CHOOSE k \in {args[i] : i \in 1..Len(args)} :
                        IsLayer(k) /\ NameOf(k) = "Body")
        ELSE LeafArity(name)[1]
      RECURSIVE indices(_, _)
      indices(par, k) == IF k = 0 THEN <<>>
                         ELSE indices(par, k - 1) \o Range(NIn(par, par.layers[k]))
      Made(par) ==
        IF par.raised THEN [raised |-> TRUE, subs |-> <<>>, select |-> <<>>]
        ELSE [raised |-> FALSE,
              subs |-> par.subs @@ (l :> <<"Sel", "P">>),
              select |-> SelectNew("Sel", indices(par, Len(par.layers)),
                                   <<>>).select]
  IN The({Made(par) : par \in {ParallelNew("P", args)}})

\* Serial(Residual(...)) with the body before the shortcut in the Branch.
ResidualNew_body_first(l, layers, shortcut) ==
  LET body == SerialNew("Body", <<Tup(layers)>>)
      branch == BranchNew("Br", <<SerialObj("Body", body.layers), shortcut>>)
  IN IF body.raised \/ branch.raised
       THEN [raised |-> TRUE, subs |-> <<>>, select |-> <<>>]
     ELSE [raised |-> FALSE,
           subs |-> branch.subs @@ body.subs @@ (l :> <<"Br", "Add">>),
           select |-> branch.select]

\* Serial(Residual(layers..., shortcut=shortcut)) as the Serial l of the
\* Branch Br and Add, the body being the Serial Body.
ResidualNew(l, layers, shortcut) ==
  LET body == SerialNew("Body", <<Tup(layers)>>)
      branch == BranchNew("Br", <<shortcut, SerialObj("Body", body.layers)>>)
  IN IF body.raised \/ branch.raised
       THEN [raised |-> TRUE, subs |-> <<>>, select |-> <<>>]
     ELSE [raised |-> FALSE,
           subs |-> branch.subs @@ body.subs @@ (l :> <<"Br", "Add">>),
           select |-> branch.select]

\* The Selection that SerialWithSideOutputs puts after its i-th layer.
SideSelect(i) ==
  CASE i = 1 -> "Sel1" [] i = 2 -> "Sel2" [] i = 3 -> "Sel3" [] OTHER -> "Sel4"

\* [n_side_outputs] * len(layers), for an n_side_outputs that is an int.
Replicated(n_side_outputs, layers) ==
  [i \in 1..Len(layers) |-> n_side_outputs]

\* The n_in that SerialWithSideOutputs calculates for leaves layers.
SideNIn(layers, n_side_outputs) ==
  LET RECURSIVE Loop(_, _, _)
      Loop(i, running_max, running_total) ==
        IF i > Len(layers) THEN running_max
        ELSE LET total1 == running_total + LeafArity(layers[i])[1]
             IN Loop(i + 1, Max(running_max, total1),
                     total1 - (LeafArity(layers[i])[2] - n_side_outputs[i]))
  IN Loop(1, 0, 0)

\* move_back_indices of SerialWithSideOutputs for a layer of n_out_ outputs.
move_back_indices(n_out_, n_side_output, cur_stack_size) ==
  Range(n_out_ - n_side_output)
    \o [i \in 1..(cur_stack_size - n_out_) |-> (i - 1) + n_out_]
    \o [i \in 1..n_side_output |-> (i - 1) + n_out_ - n_side_output]

\* SerialWithSideOutputs(layers, n_side_outputs) as the Serial l, layers
\* being leaves and n_side_outputs a list.
SerialWithSideOutputsNew(l, layers, n_side_outputs) ==
  LET RECURSIVE Loop(_, _, _, _)
      Loop(i, cur_stack_size, serial_layers, select) ==
        IF i > Len(layers)
          THEN [raised |-> FALSE, subs |-> (l :> serial_layers),
                select |-> select]
        ELSE LET size1 == cur_stack_size + LeafArity(layers[i])[2]
                            - LeafArity(layers[i])[1]
                 sel == SelectNew(SideSelect(i),
                                  move_back_indices(LeafArity(layers[i])[2],
                                                    n_side_outputs[i], size1),
                                  <<>>)
             IN IF sel.raised
                  THEN [raised |-> TRUE, subs |-> <<>>, select |-> <<>>]
                ELSE Loop(i + 1, size1,
                          serial_layers \o <<layers[i], SideSelect(i)>>,
                          select @@ sel.select)
  IN Loop(1, SideNIn(layers, n_side_outputs), <<>>, <<>>)

----------------------------------------------------------------------------
(* Stack helpers of combinators.py *)

_count_items(xs) == IF IsSeq(xs) THEN Len(xs.items) ELSE 1

\* _inputs_from_stack(layer, stack)
_inputs_from_stack(layer, stack) ==
  LET is_stack_just_one_item == (_count_items(stack) = 1)
      stack1 == IF IsSeq(stack) /\ is_stack_just_one_item
                  THEN stack.items[1] ELSE stack
  IN IF n_in(layer) = 1 /\ is_stack_just_one_item THEN stack1
     ELSE IF n_in(layer) = 1 THEN Item0(stack1)
     ELSE SliceTo(stack1, n_in(layer))

\* _outputs_onto_stack(layer, outputs, stack)
_outputs_onto_stack(layer, outputs, stack) ==
  IF n_in(layer) < _count_items(stack)
    THEN PyAdd(IF n_out(layer) = 1 THEN Tup(<<outputs>>) ELSE outputs,
               SliceFrom(stack, n_in(layer)))
    ELSE outputs

\* _pop_rng_and_split(args_dict, n_copies)
_pop_rng_and_split(rng, n_copies) ==
  IF rng = None THEN [i \in 1..n_copies |-> None] ELSE split(rng, n_copies)

----------------------------------------------------------------------------
(* Leaf layers *)

\* base._validate_forward_input(x, n_in): PyNone when the input is accepted.
_validate_forward_input(x, n) ==
  IF n # 1
    THEN IF x.tag # "tuple" THEN Raise("TypeError")
         ELSE IF Len(x.items) # n THEN Raise("ValueError")
         ELSE PyNone
    ELSE PyNone

\* Selection(xs) with the 1-tuple (xs[idxs[0]],) opened.
Selection_bare(l, xs) ==
  LET idxs == built.select[l].idxs
      xs1 == IF ~IsSeq(xs) THEN Tup(<<xs>>) ELSE xs
  IN IF \E k \in 1..Len(idxs) : idxs[k] >= Len(xs1.items)
       THEN Raise("IndexError")
     ELSE IF Len(idxs) = 1 THEN xs1.items[idxs[1] + 1]
     ELSE Tup([k \in 1..Len(idxs) |-> xs1.items[idxs[k] + 1]])

\* Selection(xs) of Select: tuple(xs[i] for i in idxs), xs made a 1-tuple
\* when it is no tuple or list.
Selection(l, xs) ==
  LET idxs == built.select[l].idxs
      xs1 == IF ~IsSeq(xs) THEN Tup(<<xs>>) ELSE xs
  IN IF \E k \in 1..Len(idxs) : idxs[k] >= Len(xs1.items)
       THEN Raise("IndexError")
     ELSE Tup([k \in 1..Len(idxs) |-> xs1.items[idxs[k] + 1]])

\* The functions wrapped by base.layer: Selection, Swap, Drop, Dup and the
\* producer.
raw_fn(l, x) ==
  CASE l \in SelectLayers -> Selection(l, x)
    [] l = "Swap" -> Tup(<<x.items[2], x.items[1]>>)
    [] l = "Drop" -> Tup(<<>>)
    [] l = "Dup" -> Tup(<<x, x>>)
    [] l = "Add" -> PyAdd(x.items[1], x.items[2])
    [] l = "Gate" -> Val("gate", 0, x.items)
    [] l = "Cell" -> Tup(<<Val("next", 0, <<x>>), Val("side", 0, <<x>>)>>)
    [] l = "Acc" -> Tup(<<PyAdd(x.items[1], x.items[2]),
                          PyAdd(x.items[1], x.items[2])>>)
    [] OTHER -> Val("out", Idx(l), <<>>)

\* forward(inputs, weights) of a leaf: the decorator's _forward, or the
\* forward of the leaf classes F and G (a function of input and weights).
forward(l, x, weights) ==
  IF l \in Decorated
    THEN IF IsRaise(_validate_forward_input(x, LeafArity(l)[1]))
           THEN _validate_forward_input(x, LeafArity(l)[1])
           ELSE raw_fn(l, x)
    ELSE Val("out", Idx(l), <<x, weights>>)

\* The state F returns from a forward pass: a new version of the one it got.
UpdatedState(s) == IF s.tag = "state" THEN [s EXCEPT !.id = @ + 1] ELSE s

\* Layer.forward_with_state (the default, which passes the state through) and
\* its override in the stateful leaf F.
LeafForwardWithState(l, x, weights, state) ==
  [out |-> forward(l, x, weights),
   st |-> IF l = "F" THEN UpdatedState(state) ELSE state]

----------------------------------------------------------------------------
(* Errors.  An exception is the value Raise(kind); the exception object is  *)
(* its one item.  A text is a sequence of lines, a line being a value whose *)
(* tag is what the line starts with.  The message of a LayerError is the    *)
(* text in its items.                                                       *)

RECURSIVE signature(_)

\* shapes.signature mapped over a nested value (backend.nested_map): every
\* tensor-like leaf becomes the ShapeDtype of its shape, and the signature of
\* a ShapeDtype is itself.
signature(v) ==
  IF IsSeq(v) THEN Val(v.tag, 0, [i \in 1..Len(v.items) |-> signature(v.items[i])])
  ELSE IF v.tag = "ShapeDtype" THEN v
  ELSE IF v.tag = "tensor" THEN ShapeDtype(v.id)
  ELSE IF v.tag = "weights" THEN ShapeDtype(100 + v.id)
  ELSE IF v.tag = "state" THEN ShapeDtype(200)
  ELSE ShapeDtype(300 + v.id)

\* self.__class__.__name__ of an instance: a leaf instance goes by the name
\* of its class, and the class base.layer makes of Select's function is
\* named Selection.
ClassName(l) ==
  IF l \in SerialLayers THEN "Serial"
  ELSE IF l \in ParallelLayers THEN "Parallel"
  ELSE IF l \in ScanLayers THEN "Scan"
  ELSE IF l \in SelectLayers THEN "Selection"
  ELSE l

\* Layer._caller, the file and line where the instance was constructed: every
\* instance is constructed at a place of its own.
_caller(l) == Val("file, line", 0, <<Val(l, 0, <<>>)>>)

Word(w) == Val(w, 0, <<>>)
BlankLine == Val("", 0, <<>>)

\* The two lines of a traceback's stack frame: the file line, whose path has
\* five components, and the line of code.
Frame == <<Val("File", 5, <<>>), Val("code", 0, <<>>)>>

\* _shorten_file_path(line): the path of a file line is cut to its last three
\* components after [...]; other lines (they hold no quoted path) are kept.
_shorten_file_path(line) ==
  IF line.tag = "File" THEN Val("File", Min(line.id, 3), <<Word("[...]")>>)
  ELSE line

\* LayerError.message: the prefix naming layer and function, the line of the
\* call site, the line of the input shapes, an empty line and the traceback.
message(layer_name, function_name, caller, input_signature, traceback_string) ==
  <<Val("Exception passing through layer", 0,
        <<Word(layer_name), Word(function_name)>>),
    Val("layer created in file", 0, <<caller>>),
    Val("layer input shapes", 0, <<input_signature>>),
    BlankLine>> \o traceback_string

\* traceback.format_exc() in the except clause of a Layer method that caught
\* e: the header, the frame of the method itself, the frames down to the
\* raise statement, and the lines of str(e) after the exception's qualified
\* class name.  An exception that a sublayer's own except clause raised has
\* passed two frames below the method's (the combinator's method that called
\* the sublayer, and the sublayer's method that raised it); of any other
\* exception the one frame of the method that raised it is kept.
format_exc(e) ==
  LET exc == e.items[1]
  IN <<Word("Traceback (most recent call last):")>> \o Frame
       \o (IF exc.tag = "LayerError"
             THEN Frame \o Frame
                    \o <<Val("trax.layers.base.LayerError", 0,
                             exc.items[1].items)>>
                    \o SubSeq(exc.items, 2, Len(exc.items))
             ELSE Frame \o <<exc>>)

\* _short_traceback(skip) for the caught exception e.
_short_traceback(e, skip) ==
  LET lines == SubSeq(format_exc(e), skip + 1, Len(format_exc(e)))
      RECURSIVE Loop(_, _)
      Loop(counter, res) ==
        IF counter >= Len(lines) THEN res
        ELSE LET l0 == lines[counter + 1]
                 l == IF l0.tag = "trax.layers.base.LayerError"
                        THEN [l0 EXCEPT !.tag = "LayerError"] ELSE l0
                 res1 == Append(res, _shorten_file_path(l))
                 res2 == IF counter % 2 = 1 THEN Append(res1, BlankLine)
                         ELSE res1
             IN IF l.tag = "LayerError"
                  THEN SubSeq(res2, 1, Len(res2) - 4) \o <<res2[Len(res2)]>>
                         \o SubSeq(lines, counter + 2, Len(lines))
                  ELSE Loop(counter + 1, res2)
  IN Loop(0, <<>>)

\* The LayerError that the except clause of l's method function_name raises
\* for the caught exception e: LayerError(name, function_name, self._caller,
\* input_signature, trace).
LayerError(l, function_name, input_signature, e) ==
  Val("raise", 0,
      <<Val("LayerError", 0,
            message(ClassName(l), function_name, _caller(l), input_signature,
                    _short_traceback(e, 3)))>>)

----------------------------------------------------------------------------
(* The forward pass.  The operators take the instances' fields as a record *)
(* h (rng, w, s, fin, sig, assigned: one function over the instances) and *)
(* return it as the call left it, with the call's results: out (the        *)
(* outputs, or a raise value), st (the new state) and trace (one entry per *)
(* sublayer a Serial invoked: the stack before, the inputs handed over,    *)
(* the outputs received and the stack after).                              *)

RECURSIVE _forward_internal(_, _, _, _, _, _)
RECURSIVE forward_with_state(_, _, _, _, _, _)
RECURSIVE SerialForwardLoop(_, _, _, _, _, _, _, _, _)
RECURSIVE ParallelForwardLoop(_, _, _, _, _, _, _, _, _, _)
RECURSIVE scan(_, _, _, _, _, _, _, _, _, _)

\* Serial._validate_forward_inputs with every rejected input a ValueError.
_validate_forward_inputs_value(l, xs) ==
  LET len_xs == IF IsSeq(xs) THEN Len(xs.items) ELSE 1
  IN IF xs.tag # "tuple" /\ n_in(l) # 1 THEN Raise("ValueError")
     ELSE IF len_xs < n_in(l) THEN Raise("ValueError")
     ELSE PyNone

\* Serial._validate_forward_inputs with "at most n_in" taken for "fewer than".
_validate_forward_inputs_le(l, xs) ==
  LET len_xs == IF IsSeq(xs) THEN Len(xs.items) ELSE 1
  IN IF xs.tag # "tuple" /\ n_in(l) # 1 THEN Raise("TypeError")
     ELSE IF len_xs <= n_in(l) THEN Raise("ValueError")
     ELSE PyNone

\* Serial._validate_forward_inputs(xs): PyNone when the input is accepted.  An
\* input that is no tuple or list is an array, which counts as one item.
_validate_forward_inputs(l, xs) ==
  LET len_xs == IF IsSeq(xs) THEN Len(xs.items) ELSE 1
  IN IF xs.tag # "tuple" /\ n_in(l) # 1 THEN Raise("TypeError")
     ELSE IF len_xs < n_in(l) THEN Raise("ValueError")
     ELSE PyNone

\* The loop of Serial.forward_with_state from the i-th zipped item on.
SerialForwardLoop(l, i, stack, new_state, weights, state, rngs, h, trace) ==
  LET n == Min(Min(Len(sublayers[l]), Len(weights.items)),
               Min(Len(state.items), Len(rngs)))
      layer == sublayers[l][i]
      Entry(inputs, r, stack1) ==
        [layer |-> layer, before |-> stack, inputs |-> inputs,
         weights |-> weights.items[i], rng |-> rngs[i],
         outputs |-> r.out, state |-> r.st, after |-> stack1]
      Pushed(inputs, r, stack1) ==
        IF IsRaise(inputs)
          THEN [h |-> h, out |-> inputs, st |-> state, trace |-> trace]
        ELSE IF IsRaise(r.out)
          THEN [h |-> r.h, out |-> r.out, st |-> state, trace |-> trace]
        ELSE IF IsRaise(stack1)
          THEN [h |-> r.h, out |-> stack1, st |-> state, trace |-> trace]
        ELSE SerialForwardLoop(l, i + 1, stack1, Append(new_state, r.st),
                               weights, state, rngs, r.h,
                               Append(trace, Entry(inputs, r, stack1)))
      Invoked(inputs, r) ==
        The({Pushed(inputs, r, stack1) :
               stack1 \in {_outputs_onto_stack(layer, r.out, stack)}})
      Popped(inputs) ==
        The({Invoked(inputs, r) :
               r \in {_forward_internal(layer, inputs, weights.items[i],
                                        state.items[i], rngs[i], h)}})
  IN IF i > n
       THEN [h |-> h, out |-> stack, st |-> List(new_state), trace |-> trace]
       ELSE The({Popped(inputs) : inputs \in {_inputs_from_stack(layer, stack)}})

\* Serial.forward_with_state without the two length requirements.
SerialForwardWithState_any_length(l, xs, weights, state, rng, h) ==
  LET n_layers == Len(sublayers[l])
      rngs == _pop_rng_and_split(rng, n_layers)
      fail(e) == [h |-> h, out |-> e, st |-> state, trace |-> <<>>]
  IN IF IsRaise(_validate_forward_inputs(l, xs))
       THEN fail(_validate_forward_inputs(l, xs))
     ELSE IF n_layers = 0
       THEN [h |-> h, out |-> xs, st |-> state, trace |-> <<>>]
     ELSE IF ~IsSeq(weights) \/ ~IsSeq(state) THEN fail(Raise("TypeError"))
     ELSE SerialForwardLoop(l, 1, xs, <<>>, weights, state, rngs, h, <<>>)

\* Serial.forward_with_state(xs, weights, state, rng).  len() and zip() of a
\* weights or state value that is no tuple or list raise TypeError.
SerialForwardWithState(l, xs, weights, state, rng, h) ==
  LET n_layers == Len(sublayers[l])
      rngs == _pop_rng_and_split(rng, n_layers)
      fail(e) == [h |-> h, out |-> e, st |-> state, trace |-> <<>>]
  IN IF IsRaise(_validate_forward_inputs(l, xs))
       THEN fail(_validate_forward_inputs(l, xs))
     ELSE IF n_layers = 0
       THEN [h |-> h, out |-> xs, st |-> state, trace |-> <<>>]
     ELSE IF ~IsSeq(weights) \/ ~IsSeq(state) THEN fail(Raise("TypeError"))
     ELSE IF n_layers # 1 /\ Len(weights.items) # n_layers
       THEN fail(Raise("ValueError"))
     ELSE IF n_layers # 1 /\ Len(state.items) # n_layers
       THEN fail(Raise("ValueError"))
     ELSE SerialForwardLoop(l, 1, xs, <<>>, weights, state, rngs, h, <<>>)

\* Parallel._allot_to_sublayers(inputs) that hands every sublayer the
\* leading items.
_allot_to_sublayers_from_start(l, inputs) ==
  LET RECURSIVE Loop(_, _)
      Loop(i, sub_inputs) ==
        IF i > Len(sublayers[l]) THEN Tup(sub_inputs)
        ELSE LET n == n_in(sublayers[l][i])
                 x == IF n = 1 THEN ItemAt(inputs, 0) ELSE Slice(inputs, 0, n)
             IN IF IsRaise(x) THEN x ELSE Loop(i + 1, Append(sub_inputs, x))
  IN Loop(1, <<>>)

\* Parallel._allot_to_sublayers(inputs): the tuple of the sublayers' inputs,
\* or the IndexError of inputs[start].
_allot_to_sublayers(l, inputs) ==
  LET RECURSIVE Loop(_, _, _)
      Loop(i, start, sub_inputs) ==
        IF i > Len(sublayers[l]) THEN Tup(sub_inputs)
        ELSE LET n == n_in(sublayers[l][i])
                 end == start + n
                 x == IF n = 1 THEN ItemAt(inputs, start)
                      ELSE Slice(inputs, start, end)
             IN IF IsRaise(x) THEN x
                ELSE Loop(i + 1, end, Append(sub_inputs, x))
  IN Loop(1, 0, <<>>)

\* The loop of Parallel.forward_with_state from sublayer i on, and the two
\* statements after it.  The trace has one entry per sublayer invoked: before
\* is the tuple of allotted inputs, after the list of outputs so far.
ParallelForwardLoop(l, i, outputs, new_state, sub_inputs, weights, state, rngs, h, trace) ==
  LET layer == sublayers[l][i]
      Extended(r) ==
        IF n_out(layer) = 1 THEN Append(outputs, r.out)
        ELSE IF IsSeq(r.out) THEN outputs \o r.out.items
        ELSE Append(outputs, Val("rows", 0, <<r.out>>))
      Entry(r) ==
        [layer |-> layer, before |-> Tup(sub_inputs), inputs |-> sub_inputs[i],
         weights |-> weights.items[i], rng |-> rngs[i],
         outputs |-> r.out, state |-> r.st, after |-> Tup(Extended(r))]
      Invoked(r) ==
        IF IsRaise(r.out)
          THEN [h |-> r.h, out |-> r.out, st |-> state, trace |-> trace]
        ELSE ParallelForwardLoop(l, i + 1, Extended(r), Append(new_state, r.st),
                                 sub_inputs, weights, state, rngs, r.h,
                                 Append(trace, Entry(r)))
  IN IF i > Len(sublayers[l])
       THEN [h |-> h,
             out |-> IF n_out(l) = 1 THEN ItemAt(Tup(outputs), 0)
                     ELSE Tup(outputs),
             st |-> Tup(new_state), trace |-> trace]
       ELSE The({Invoked(r) :
                   r \in {_forward_internal(layer, sub_inputs[i],
                                            weights.items[i], state.items[i],
                                            rngs[i], h)}})

\* Parallel.forward_with_state(inputs, weights, state, rng).  len() of a
\* weights or state value that is no tuple or list raises TypeError.
ParallelForwardWithState(l, inputs, weights, state, rng, h) ==
  LET n_layers == Len(sublayers[l])
      rngs == _pop_rng_and_split(rng, n_layers)
      fail(e) == [h |-> h, out |-> e, st |-> state, trace |-> <<>>]
      Allotted(sublayer_inputs) ==
        IF IsRaise(sublayer_inputs) THEN fail(sublayer_inputs)
        ELSE IF ~IsSeq(weights) \/ ~IsSeq(state) THEN fail(Raise("TypeError"))
        ELSE IF Len(weights.items) # n_layers \/ Len(state.items) # n_layers
          THEN fail(Raise("AssertionError"))
        ELSE ParallelForwardLoop(l, 1, <<>>, <<>>, sublayer_inputs.items,
                                 weights, state, rngs, h, <<>>)
  IN The({Allotted(sublayer_inputs) :
            sublayer_inputs \in {_allot_to_sublayers(l, inputs)}})

\* Scan._n_carry and Scan._axis: the arguments of Scan(layer, axis, n_carry)
\* when the constructor call is on record, and its defaults otherwise.
n_carry == IF built.class = "Scan" THEN built.args[3] ELSE 1
axis == IF built.class = "Scan" THEN built.args[2] ELSE 0

\* scannable_fn that hands back the carry it was given.
scannable_fn_keeps_carry(l, x, carry, state, weights, rng, h) ==
  LET Split(r) ==
        IF IsRaise(r.out) THEN [h |-> r.h, y |-> r.out, carry |-> carry, st |-> state]
        ELSE [h |-> r.h, y |-> SliceTo(r.out, 0 - n_carry),
              carry |-> carry, st |-> r.st]
  IN The({Split(r) :
            r \in {forward_with_state(sublayers[l][1], PyAdd(x, carry), weights,
                                      state, rng, h)}})

\* scannable_fn(x, (carry, state)) of Scan.forward_with_state: y is
\* res[:-n_carry] (or the raise value), carry is res[-n_carry:].
scannable_fn(l, x, carry, state, weights, rng, h) ==
  LET Split(r) ==
        IF IsRaise(r.out) THEN [h |-> r.h, y |-> r.out, carry |-> carry, st |-> state]
        ELSE [h |-> r.h, y |-> SliceTo(r.out, 0 - n_carry),
              carry |-> SliceFrom(r.out, 0 - n_carry),
              st |-> r.st]
  IN The({Split(r) :
            r \in {forward_with_state(sublayers[l][1], PyAdd(x, carry), weights,
                                      state, rng, h)}})

\* backend.scan(scannable_fn, xs, init, axis=0) from step t on: the function
\* is applied to the t-th elements of the arrays in xs with the carry and the
\* state of the step before; ys collects the steps' outputs, stacked at the
\* end into one array per output.  The trace has one entry per step.  With
\* no array in xs there is no axis to take the number of steps from, and the
\* call raises ValueError.
scan(l, xs, t, carry, state, ys, weights, rng, h, trace) ==
  LET T == IF xs.items = <<>> THEN 0 ELSE Len(xs.items[1].items)
      x == Tup([i \in 1..Len(xs.items) |-> xs.items[i].items[t]])
      n_ys == Bound(0 - n_carry, n_out(l))
      Entry(r) ==
        [layer |-> sublayers[l][1], before |-> carry, inputs |-> PyAdd(x, carry),
         weights |-> weights, rng |-> rng, outputs |-> PyAdd(r.y, r.carry),
         state |-> r.st, after |-> r.carry]
      Stepped(r) ==
        IF IsRaise(r.y)
          THEN [h |-> r.h, ys |-> r.y, carry |-> carry, st |-> state,
                trace |-> trace]
        ELSE scan(l, xs, t + 1, r.carry, r.st, Append(ys, r.y), weights, rng,
                  r.h, Append(trace, Entry(r)))
  IN IF xs.items = <<>>
       THEN [h |-> h, ys |-> Raise("ValueError"), carry |-> carry,
             st |-> state, trace |-> trace]
     ELSE IF t > T
       THEN [h |-> h,
             ys |-> Tup([j \in 1..n_ys |->
                           Array([k \in 1..T |-> ys[k].items[j]])]),
             carry |-> carry, st |-> state, trace |-> trace]
       ELSE The({Stepped(r) :
                   r \in {scannable_fn(l, x, carry, state, weights, rng, h)}})

\* Scan.forward_with_state(inputs, weights, state, rng)
ScanForwardWithState(l, inputs, weights, state, rng, h) ==
  LET xs == SliceTo(inputs, 0 - n_carry)
      init == SliceFrom(inputs, 0 - n_carry)
      Done(r) ==
        IF IsRaise(r.ys)
          THEN [h |-> r.h, out |-> r.ys, st |-> state, trace |-> r.trace]
        ELSE [h |-> r.h, out |-> PyAdd(r.ys, r.carry), st |-> r.st,
              trace |-> r.trace]
  IN The({Done(r) :
            r \in {scan(l, xs, 1, init, state, <<>>, weights, rng, h, <<>>)}})

\* forward_with_state of any layer: the Serial, Parallel or Scan override or
\* the leaf's own.
forward_with_state(l, x, weights, state, rng, h) ==
  IF l \in SerialLayers THEN SerialForwardWithState(l, x, weights, state, rng, h)
  ELSE IF l \in ParallelLayers
    THEN ParallelForwardWithState(l, x, weights, state, rng, h)
  ELSE IF l \in ScanLayers
    THEN ScanForwardWithState(l, x, weights, state, rng, h)
  ELSE [h |-> h, out |-> LeafForwardWithState(l, x, weights, state).out,
        st |-> LeafForwardWithState(l, x, weights, state).st, trace |-> <<>>]

\* Layer._forward_internal without the two assignments to the cache.
_forward_internal_no_cache(l, x, weights, state, rng, h) ==
  LET w1 == IF weights = EMPTY_WEIGHTS THEN h.w[l] ELSE weights
      Done(r) ==
        IF IsRaise(r.out)
          THEN [r EXCEPT !.out = LayerError(l, "_forward_internal",
                                            signature(x), r.out)]
        ELSE r
  IN The({Done(r) : r \in {forward_with_state(l, x, w1, state, rng, h)}})

\* Layer._forward_internal(x, weights, state, rng); has_backward is False.
_forward_internal(l, x, weights, state, rng, h) ==
  LET w1 == IF weights = EMPTY_WEIGHTS THEN h.w[l] ELSE weights
      h1 == IF weights = EMPTY_WEIGHTS THEN h ELSE [h EXCEPT !.w[l] = weights]
      Done(r) ==
        IF IsRaise(r.out)
          THEN [r EXCEPT !.out = LayerError(l, "_forward_internal",
                                            signature(x), r.out)]
        ELSE [r EXCEPT !.h = [r.h EXCEPT !.s[l] = r.st]]
  IN The({Done(r) : r \in {forward_with_state(l, x, w1, state, rng, h1)}})

----------------------------------------------------------------------------
(* Initialization *)

\* new_weights / new_weights_and_state of the leaves: F has weights and a
\* state, G has weights, a layer made by base.layer without new_weights_fn
\* has neither.
NewWeights(l, input_signature) ==
  IF l \in {"F", "G"} THEN Val("weights", Idx(l), <<input_signature>>)
  ELSE EMPTY_WEIGHTS

NewState(l, input_signature) ==
  IF l = "F" THEN Val("state", 0, <<input_signature>>) ELSE EMPTY_STATE

\* Layer._set_rng_recursive(rng): the layer takes rng and each direct sublayer
\* takes one key of split(rng, len(sublayers)); an instance at several
\* positions keeps the key of its last position.
_set_rng_recursive(l, rng, h) ==
  LET subs == sublayers[l]
      rngs == split(rng, Len(subs))
      Last(k) == CHOOSE i \in 1..Len(subs) :
                   subs[i] = k /\ \A j \in 1..Len(subs) : subs[j] = k => j <= i
      given == {k \in DOMAIN h.rng : \E i \in 1..Len(subs) : subs[i] = k}
  IN [h EXCEPT !.rng = [k \in DOMAIN h.rng |->
                          IF k \in given THEN rngs[Last(k)]
                          ELSE IF k = l THEN rng
                          ELSE h.rng[k]],
               !.assigned[l] = @ \cup {rngs[i] : i \in 1..Len(subs)}]

\* Layer._forward_abstract(input_signature): forward_with_state traced on
\* signatures of the input, of the cached weights and of the cached state.
_forward_abstract(l, input_signature, h) ==
  LET Done(r) ==
        IF IsRaise(r.out)
          THEN [r EXCEPT !.out = LayerError(l, "_forward_abstract",
                                            input_signature, r.out)]
        ELSE r
  IN The({Done(r) :
            r \in {forward_with_state(l, input_signature, signature(h.w[l]),
                                      signature(h.s[l]), RngStub, h)}})

RECURSIVE init(_, _, _, _)
RECURSIVE new_weights_and_state(_, _, _)
RECURSIVE SerialNewWeightsAndStateLoop(_, _, _, _, _, _)
RECURSIVE ParallelNewWeightsAndStateLoop(_, _, _, _, _, _)

\* The loop of Serial.new_weights_and_state from sublayer i on.
SerialNewWeightsAndStateLoop(l, i, stack, weights, states, h) ==
  LET sublayer == sublayers[l][i]
      Pushed(inputs, ri, fa, stack1) ==
        IF IsRaise(inputs) THEN [h |-> h, w |-> inputs, s |-> PyNone]
        ELSE IF IsRaise(ri.w) THEN [h |-> ri.h, w |-> ri.w, s |-> PyNone]
        ELSE IF IsRaise(fa.out) THEN [h |-> fa.h, w |-> fa.out, s |-> PyNone]
        ELSE IF IsRaise(stack1) THEN [h |-> fa.h, w |-> stack1, s |-> PyNone]
        ELSE SerialNewWeightsAndStateLoop(
               l, i + 1, stack1, Append(weights, ri.w), Append(states, ri.s),
               fa.h)
      Traced(inputs, ri, fa) ==
        The({Pushed(inputs, ri, fa, stack1) :
               stack1 \in {_outputs_onto_stack(sublayer, fa.out, stack)}})
      Inited(inputs, ri) ==
        IF IsRaise(ri.w) THEN [h |-> ri.h, w |-> ri.w, s |-> PyNone]
        ELSE The({Traced(inputs, ri, fa) :
                    fa \in {_forward_abstract(sublayer, inputs, ri.h)}})
      Popped(inputs) ==
        IF IsRaise(inputs) THEN [h |-> h, w |-> inputs, s |-> PyNone]
        ELSE The({Inited(inputs, ri) : ri \in {init(sublayer, inputs, None, h)}})
  IN IF i > Len(sublayers[l])
       THEN [h |-> h, w |-> List(weights), s |-> List(states)]
       ELSE The({Popped(inputs) :
                   inputs \in {_inputs_from_stack(sublayer, stack)}})

\* Parallel.new_weights_and_state from sublayer i on: init of each sublayer
\* on its allotted signature, and the tuples of the weights and of the states.
ParallelNewWeightsAndStateLoop(l, i, sublayer_signatures, weights, states, h) ==
  LET Inited(ri) ==
        IF IsRaise(ri.w) THEN [h |-> ri.h, w |-> ri.w, s |-> PyNone]
        ELSE ParallelNewWeightsAndStateLoop(
               l, i + 1, sublayer_signatures, Append(weights, ri.w),
               Append(states, ri.s), ri.h)
  IN IF i > Min(Len(sublayers[l]), Len(sublayer_signatures.items))
       THEN [h |-> h, w |-> Tup(weights), s |-> Tup(states)]
       ELSE The({Inited(ri) :
                   ri \in {init(sublayers[l][i], sublayer_signatures.items[i],
                                None, h)}})

\* _shape_without_axis(x, axis): x.shape[:axis] + x.shape[axis + 1:], the
\* shape of a ShapeDtype being its items.
_shape_without_axis(x, axis_) ==
  SubSeq(x.items, 1, Bound(axis_, Len(x.items)))
    \o SubSeq(x.items, Bound(axis_ + 1, Len(x.items)) + 1, Len(x.items))

\* layer_signature of Scan.new_weights_and_state: the signatures before the
\* last n_carry without the scanned axis, then the last n_carry as they are.
ScanLayerSignature(input_signature) ==
  LET xs == SliceTo(input_signature, 0 - n_carry)
      init_ == SliceFrom(input_signature, 0 - n_carry)
      xs_slices == [i \in 1..Len(xs.items) |->
                      Val("ShapeDtype", xs.items[i].id,
                          _shape_without_axis(xs.items[i], axis))]
  IN Tup(xs_slices \o init_.items)

\* new_weights_and_state(input_signature): the override of Serial, of
\* Parallel or of Scan, or the leaf's.  Subscripting a signature that is one
\* ShapeDtype raises TypeError.
new_weights_and_state(l, input_signature, h) ==
  IF l \in SerialLayers
    THEN SerialNewWeightsAndStateLoop(l, 1, input_signature, <<>>, <<>>, h)
  ELSE IF l \in ParallelLayers
    THEN IF ~IsSeq(input_signature)
           THEN [h |-> h, w |-> Raise("TypeError"), s |-> PyNone]
         ELSE IF IsRaise(_allot_to_sublayers(l, input_signature))
           THEN [h |-> h, w |-> _allot_to_sublayers(l, input_signature),
                 s |-> PyNone]
         ELSE ParallelNewWeightsAndStateLoop(
                l, 1, _allot_to_sublayers(l, input_signature), <<>>, <<>>, h)
  ELSE IF l \in ScanLayers
    THEN IF ~IsSeq(input_signature)
           THEN [h |-> h, w |-> Raise("TypeError"), s |-> PyNone]
         ELSE new_weights_and_state(sublayers[l][1],
                                    ScanLayerSignature(input_signature), h)
    ELSE [h |-> h, w |-> NewWeights(l, input_signature),
          s |-> NewState(l, input_signature)]

\* Layer.init without the latch: every call caches and returns the weights.
init_no_latch(l, input_signature, rng, h) ==
  LET h1 == IF h.rng[l] = None
              THEN _set_rng_recursive(
                     l, IF rng = None THEN get_prng(DefaultSeed) ELSE rng, h)
              ELSE h
      Done(r) ==
        IF IsRaise(r.w)
          THEN [h |-> r.h, w |-> LayerError(l, "init", input_signature, r.w),
                s |-> PyNone, nws |-> r]
        ELSE [h |-> [r.h EXCEPT !.fin[l] = TRUE, !.w[l] = r.w, !.s[l] = r.s],
              w |-> r.w, s |-> r.s, nws |-> r]
  IN The({Done(r) : r \in {new_weights_and_state(l, input_signature, h1)}})

\* Layer.init(input_signature, rng): w and s are the returned pair (w is a
\* raise value when LayerError is raised), nws is what the call's
\* new_weights_and_state returned.
init(l, input_signature, rng, h) ==
  LET h1 == IF h.rng[l] = None
              THEN _set_rng_recursive(
                     l, IF rng = None THEN get_prng(DefaultSeed) ELSE rng, h)
              ELSE h
      Done(r) ==
        IF IsRaise(r.w)
          THEN [h |-> r.h, w |-> LayerError(l, "init", input_signature, r.w),
                s |-> PyNone, nws |-> r]
        ELSE IF ~r.h.fin[l]
          THEN [h |-> [r.h EXCEPT !.fin[l] = TRUE, !.w[l] = r.w, !.s[l] = r.s],
                w |-> r.w, s |-> r.s, nws |-> r]
        ELSE [h |-> r.h, w |-> EMPTY_WEIGHTS, s |-> r.s, nws |-> r]
  IN The({Done(r) : r \in {new_weights_and_state(l, input_signature, h1)}})

RECURSIVE _set_input_signature_recursive(_, _, _)
RECURSIVE SerialSetInputSignatureLoop(_, _, _, _)
RECURSIVE ParallelSetInputSignatureLoop(_, _, _, _)

\* The loop of Serial._set_input_signature_recursive from sublayer i on; ok
\* is FALSE when an exception ended it.
SerialSetInputSignatureLoop(l, i, stack, h) ==
  LET layer == sublayers[l][i]
      Pushed(fa, stack1) ==
        IF IsRaise(fa.out) \/ IsRaise(stack1) THEN [h |-> fa.h, ok |-> FALSE]
        ELSE SerialSetInputSignatureLoop(l, i + 1, stack1, fa.h)
      Traced(fa) ==
        The({Pushed(fa, stack1) :
               stack1 \in {_outputs_onto_stack(layer, fa.out, stack)}})
      Set(inputs, rs) ==
        IF ~rs.ok THEN rs
        ELSE The({Traced(fa) : fa \in {_forward_abstract(layer, inputs, rs.h)}})
      Popped(inputs) ==
        IF IsRaise(inputs) THEN [h |-> h, ok |-> FALSE]
        ELSE The({Set(inputs, rs) :
                    rs \in {_set_input_signature_recursive(layer, inputs, h)}})
  IN IF i > Len(sublayers[l]) THEN [h |-> h, ok |-> TRUE]
       ELSE The({Popped(inputs) : inputs \in {_inputs_from_stack(layer, stack)}})

\* Parallel._set_input_signature_recursive from sublayer i on.
ParallelSetInputSignatureLoop(l, i, sublayer_signatures, h) ==
  LET Set(rs) ==
        IF ~rs.ok THEN rs
        ELSE ParallelSetInputSignatureLoop(l, i + 1, sublayer_signatures, rs.h)
  IN IF i > Min(Len(sublayers[l]), Len(sublayer_signatures.items))
       THEN [h |-> h, ok |-> TRUE]
       ELSE The({Set(rs) :
                   rs \in {_set_input_signature_recursive(
                             sublayers[l][i], sublayer_signatures.items[i], h)}})

\* _set_input_signature_recursive(input_signature) of Layer (a layer with one
\* sublayer, as a Scan, hands the signature on to it; a leaf has none), of
\* Serial and of Parallel.
_set_input_signature_recursive(l, input_signature, h) ==
  IF l \in SerialLayers
    THEN SerialSetInputSignatureLoop(
           l, 1, input_signature, [h EXCEPT !.sig[l] = input_signature])
  ELSE IF l \in ParallelLayers
    THEN IF \/ ~IsSeq(input_signature)
            \/ IsRaise(_allot_to_sublayers(l, input_signature))
           THEN [h |-> [h EXCEPT !.sig[l] = input_signature], ok |-> FALSE]
         ELSE ParallelSetInputSignatureLoop(
                l, 1, _allot_to_sublayers(l, input_signature),
                [h EXCEPT !.sig[l] = input_signature])
  ELSE IF Len(sublayers[l]) = 1
    THEN _set_input_signature_recursive(
           sublayers[l][1], input_signature,
           [h EXCEPT !.sig[l] = input_signature])
    ELSE [h |-> [h EXCEPT !.sig[l] = input_signature], ok |-> TRUE]

\* Layer.new_rngs(n): split the cursor into n + 1 keys, keep the first as the
\* new cursor and return the others.
new_rngs(l, n, h) ==
  LET rngs == split(h.rng[l], n + 1)
  IN [h |-> [h EXCEPT !.rng[l] = rngs[1]], keys |-> SubSeq(rngs, 2, n + 1)]

\* Layer.new_rng(): backend.random.split(self._rng) gives two keys, the new
\* cursor and the returned key.
new_rng(l, h) ==
  LET rngs == split(h.rng[l], 2)
  IN [h |-> [h EXCEPT !.rng[l] = rngs[1]], keys |-> <<rngs[2]>>]

----------------------------------------------------------------------------
(* The state machine *)

Heap ==
  [rng |-> _rng, w |-> _weights, s |-> _state, fin |-> _init_finished,
   sig |-> _input_signature, assigned |-> assigned]

Store(h) ==
  /\ _rng' = h.rng
  /\ _weights' = h.w
  /\ _state' = h.s
  /\ _init_finished' = h.fin
  /\ _input_signature' = h.sig
  /\ assigned' = h.assigned

Blank ==
  [op |-> "none", layer |-> "none", sig |-> PyNone, seed |-> None, n |-> 0,
   x |-> PyNone, weights |-> PyNone, state |-> PyNone, rng |-> None,
   ok |-> TRUE, ret_w |-> PyNone, ret_s |-> PyNone, out |-> PyNone,
   nws_w |-> PyNone, nws_s |-> PyNone, keys |-> <<>>, first |-> FALSE,
   fresh |-> FALSE, trace |-> <<>>]

RECURSIVE Subtree(_), UserWeights(_), UserState(_), StateVer(_)

\* The instances reachable from l through sublayers, l included.
Subtree(l) ==
  {l} \cup UNION {Subtree(sublayers[l][i]) : i \in 1..Len(sublayers[l])}

\* Weights and state a caller passes with weights= and state=: shaped like
\* the ones init returns, with values of the caller's own.
UserWeights(l) ==
  IF l \in SerialLayers
    THEN List([i \in 1..Len(sublayers[l]) |-> UserWeights(sublayers[l][i])])
  ELSE IF l \in ParallelLayers
    THEN Tup([i \in 1..Len(sublayers[l]) |-> UserWeights(sublayers[l][i])])
  ELSE IF l \in ScanLayers THEN UserWeights(sublayers[l][1])
    ELSE NewWeights(l, ShapeDtype(9))

UserState(l) ==
  IF l \in SerialLayers
    THEN List([i \in 1..Len(sublayers[l]) |-> UserState(sublayers[l][i])])
  ELSE IF l \in ParallelLayers
    THEN Tup([i \in 1..Len(sublayers[l]) |-> UserState(sublayers[l][i])])
  ELSE IF l \in ScanLayers THEN UserState(sublayers[l][1])
    ELSE NewState(l, ShapeDtype(9))

\* The highest version of a leaf state inside a state value.
StateVer(v) ==
  IF v.tag = "state" THEN v.id
  ELSE IF v.items = <<>> THEN 0
  ELSE LET vs == {StateVer(v.items[i]) : i \in 1..Len(v.items)}
       IN CHOOSE m \in vs : \A k \in vs : k <= m

\* Arguments of the calls: signatures of one input, the pairs of signature
\* and seed given to init (None is "no seed given"; a Serial's init fails on
\* the empty tuple), inputs.
Signatures == {ShapeDtype(1), ShapeDtype(2)}
InitArgs ==
  {[sig |-> ShapeDtype(1), seed |-> None],
   [sig |-> ShapeDtype(1), seed |-> get_prng(1)],
   [sig |-> ShapeDtype(2), seed |-> None],
   [sig |-> Tup(<<>>), seed |-> None]}
TestInputs == {Tensor(1)}

\* No constructor call is on record: the instances are given as built.
NotBuilt ==
  [class |-> "none", args |-> <<>>, ok |-> TRUE, error |-> PyNone,
   select |-> <<>>]

\* The instances insts as constructed: subs gives the sublayer list of each
\* combinator among them, and a leaf has none (Layer.__init__).
Constructed(insts, subs) ==
  [l \in insts |-> IF l \in DOMAIN subs THEN subs[l] ELSE <<>>]

InitInstances ==
  /\ _rng = [l \in DOMAIN sublayers |-> None]
  /\ _weights = [l \in DOMAIN sublayers |-> EMPTY_WEIGHTS]
  /\ _state = [l \in DOMAIN sublayers |-> EMPTY_STATE]
  /\ _input_signature = [l \in DOMAIN sublayers |-> PyNone]
  /\ _init_finished = [l \in DOMAIN sublayers |-> FALSE]
  /\ issued = [l \in DOMAIN sublayers |-> <<>>]
  /\ assigned = [l \in DOMAIN sublayers |-> {}]
  /\ last = Blank
  /\ nops = 0

InitFields ==
  /\ built = NotBuilt
  /\ InitInstances

Step == nops < MaxOps /\ nops' = nops + 1

\* After construction of Inner = Serial(F, G) and Root = Serial(Inner, F).
Init ==
  /\ sublayers = Constructed(NetLayers, [Inner |-> <<"F", "G">>,
                                          Root |-> <<"Inner", "F">>])
  /\ InitFields

\* layer.init(input_signature, rng=seed)
LayerInit(l, sig, seed) ==
  /\ nops < MaxOps
  /\ \E r \in {init(l, sig, seed, Heap)} :
     /\ Step
     /\ Store(r.h)
     /\ last' = [Blank EXCEPT !.op = "init", !.layer = l, !.sig = sig,
                   !.seed = seed, !.ok = ~IsRaise(r.w), !.ret_w = r.w,
                   !.ret_s = r.s, !.nws_w = r.nws.w, !.nws_s = r.nws.s,
                   !.first = ~_init_finished[l],
                   !.fresh = \A k \in Subtree(l) : _rng[k] = None]
     /\ UNCHANGED <<sublayers, built, issued>>

\* layer.new_rng(); splitting a cursor that is still None raises.
NewRng(l) ==
  /\ Step
  /\ Len(issued[l]) < MaxDraws
  /\ IF _rng[l] = None
       THEN /\ last' = [Blank EXCEPT !.op = "new_rng", !.layer = l, !.ok = FALSE]
            /\ UNCHANGED <<_rng, issued>>
       ELSE \E r \in {new_rng(l, Heap)} :
              /\ _rng' = r.h.rng
              /\ issued' = [issued EXCEPT ![l] = @ \o r.keys]
              /\ last' = [Blank EXCEPT !.op = "new_rng", !.layer = l,
                            !.keys = r.keys]
  /\ UNCHANGED <<sublayers, built, _weights, _state, _input_signature,
                 _init_finished, assigned>>

\* layer.new_rngs(n); n < 1 raises ValueError.
NewRngs(l, n) ==
  /\ Step
  /\ Len(issued[l]) < MaxDraws
  /\ IF n < 1 \/ _rng[l] = None
       THEN /\ last' = [Blank EXCEPT !.op = "new_rngs", !.layer = l, !.n = n,
                          !.ok = FALSE]
            /\ UNCHANGED <<_rng, issued>>
       ELSE \E r \in {new_rngs(l, n, Heap)} :
              /\ _rng' = r.h.rng
              /\ issued' = [issued EXCEPT ![l] = @ \o r.keys]
              /\ last' = [Blank EXCEPT !.op = "new_rngs", !.layer = l, !.n = n,
                            !.keys = r.keys]
  /\ UNCHANGED <<sublayers, built, _weights, _state, _input_signature,
                 _init_finished, assigned>>

\* layer(x, weights=..., state=..., rng=...): Layer.__call__, where a keyword
\* that is not given defaults to the cached value.
Call(l, x, weights_given, state_given, rng) ==
  LET weights == IF weights_given THEN UserWeights(l) ELSE _weights[l]
      state == IF state_given THEN UserState(l) ELSE _state[l]
  IN /\ nops < MaxOps
     /\ StateVer(state) < MaxVer
     /\ \E r \in {_forward_internal(l, x, weights, state, rng, Heap)} :
        /\ Step
        /\ Store(r.h)
        /\ last' = [Blank EXCEPT !.op = "call", !.layer = l, !.x = x,
                      !.weights = weights, !.state = state, !.rng = rng,
                      !.ok = ~IsRaise(r.out), !.out = r.out, !.ret_s = r.st,
                      !.trace = r.trace]
        /\ UNCHANGED <<sublayers, built, issued>>

\* layer._set_input_signature_recursive(input_signature)
SetInputSignature(l, sig) ==
  /\ nops < MaxOps
  /\ \E r \in {_set_input_signature_recursive(l, sig, Heap)} :
     /\ Step
     /\ Store(r.h)
     /\ last' = [Blank EXCEPT !.op = "set_input_signature", !.layer = l,
                   !.sig = sig, !.ok = r.ok]
     /\ UNCHANGED <<sublayers, built, issued>>

Next ==
  \/ \E l \in NetLayers, a \in InitArgs : LayerInit(l, a.sig, a.seed)
  \/ \E l \in NetLayers : NewRng(l)
  \/ \E l \in NetLayers, n \in 0..MaxN : NewRngs(l, n)
  \/ \E l \in NetLayers, x \in TestInputs, wg \in BOOLEAN, sg \in BOOLEAN :
        Call(l, x, wg, sg, None)
  \/ \E l \in NetLayers, sig \in Signatures : SetInputSignature(l, sig)

Spec == Init /\ [][Next]_vars

----------------------------------------------------------------------------
(* The Serial under test: S is the Serial of q, for every list q of at     *)
(* most MaxLayers leaves, run once through forward_with_state.             *)

SublayerLists == UNION {[1..k -> StackLeaves] : k \in 0..MaxLayers}

\* Inputs: one bare tensor, or a tuple of 0 .. MaxLayers + 1 tensors.
SerialInputs ==
  {Tensor(1)} \cup {Tup([i \in 1..k |-> Tensor(i)]) : k \in 0..(MaxLayers + 1)}

\* Weights shaped like the ones Serial.init returns: the slot of an instance's
\* first position holds weights, the slots of its later positions hold
\* EMPTY_WEIGHTS.
SharedWeights(l) ==
  List([i \in 1..Len(sublayers[l]) |->
          IF \E k \in 1..(i - 1) : sublayers[l][k] = sublayers[l][i]
            THEN EMPTY_WEIGHTS
          ELSE UserWeights(sublayers[l][i])])

\* weights=, state= and rng= arguments: one slot per sublayer with and
\* without an rng, the empty tuple for both, a state that is no sequence,
\* weights with one slot too many, and weights shaped like init's.
SerialArgs ==
  {[weights |-> UserWeights("S"), state |-> UserState("S"), rng |-> None],
   [weights |-> UserWeights("S"), state |-> UserState("S"), rng |-> get_prng(7)],
   [weights |-> EMPTY_WEIGHTS, state |-> EMPTY_STATE, rng |-> None],
   [weights |-> UserWeights("S"), state |-> Val("state", 0, <<>>), rng |-> None],
   [weights |-> List(Append(UserWeights("S").items, EMPTY_WEIGHTS)),
    state |-> UserState("S"), rng |-> None],
   [weights |-> SharedWeights("S"), state |-> UserState("S"), rng |-> None]}

InitSerial ==
  /\ sublayers \in {Constructed(StackLeaves \cup {"S"}, [S |-> q]) :
                      q \in SublayerLists}
  /\ InitFields

\* S.forward_with_state(xs, weights=weights, state=state, rng=rng)
SerialForward(xs, weights, state, rng) ==
  /\ nops = 0
  /\ \E r \in {SerialForwardWithState("S", xs, weights, state, rng, Heap)} :
     /\ nops' = 1
     /\ Store(r.h)
     /\ last' = [Blank EXCEPT !.op = "forward_with_state", !.layer = "S",
                   !.x = xs, !.weights = weights, !.state = state, !.rng = rng,
                   !.ok = ~IsRaise(r.out), !.out = r.out, !.ret_s = r.st,
                   !.trace = r.trace]
     /\ UNCHANGED <<sublayers, built, issued>>

NextSerial ==
  \E xs \in SerialInputs, a \in SerialArgs :
     SerialForward(xs, a.weights, a.state, a.rng)

SpecSerial == InitSerial /\ [][NextSerial]_vars

----------------------------------------------------------------------------
(* Construction under test: Serial(args) as S or Parallel(args) as P,      *)
(* for every list of at most MaxArgs arguments, and one forward pass of    *)
(* the Parallel that was made.                                             *)

MaxArgs == 2

\* Constructor arguments: the leaves, None, [], lists and a nested tuple of
\* layers, an object that is no layer, and a list that holds one.
ArgObjects ==
  {LayerObj(l) : l \in {"F", "G", "Swap", "Drop", "Dup", "Prod"}}
    \cup {PyNone, List(<<>>), NonLayer,
          List(<<LayerObj("G"), LayerObj("Dup")>>), List(<<LayerObj("Prod")>>),
          Tup(<<LayerObj("Swap"), List(<<LayerObj("Drop")>>)>>),
          List(<<LayerObj("G"), NonLayer>>)}

ArgLists == UNION {[1..k -> ArgObjects] : k \in 0..MaxArgs}

\* Inputs of the Parallel: tuples of 1 .. 2 * MaxArgs + 1 tensors.
ParallelInputs ==
  {Tup([i \in 1..k |-> Tensor(i)]) : k \in 1..(2 * MaxArgs + 1)}

\* weights=, state= and rng= arguments: one slot per sublayer with and
\* without an rng, and the empty tuple for the weights.
ParallelArgs ==
  {[weights |-> UserWeights("P"), state |-> UserState("P"), rng |-> None],
   [weights |-> UserWeights("P"), state |-> UserState("P"), rng |-> get_prng(7)],
   [weights |-> EMPTY_WEIGHTS, state |-> UserState("P"), rng |-> None]}

InitBuild ==
  \E class \in {"Serial", "Parallel"}, args \in ArgLists :
     \E r \in {IF class = "Serial" THEN SerialNew("S", args)
                ELSE ParallelNew("P", args)} :
        /\ built = [class |-> class, args |-> args, ok |-> ~r.raised,
                    error |-> IF r.raised THEN Raise("ValueError") ELSE PyNone,
                    select |-> <<>>]
        /\ sublayers = Constructed(LeafLayers \cup DOMAIN r.subs, r.subs)
        /\ InitInstances

\* P.forward_with_state(inputs, weights=weights, state=state, rng=rng)
ParallelForward(inputs, weights, state, rng) ==
  /\ nops = 0
  /\ \E r \in {ParallelForwardWithState("P", inputs, weights, state, rng, Heap)} :
     /\ nops' = 1
     /\ Store(r.h)
     /\ last' = [Blank EXCEPT !.op = "forward_with_state", !.layer = "P",
                   !.x = inputs, !.weights = weights, !.state = state,
                   !.rng = rng, !.ok = ~IsRaise(r.out), !.out = r.out,
                   !.ret_s = r.st, !.trace = r.trace]
     /\ UNCHANGED <<sublayers, built, issued>>

NextBuild ==
  /\ built.class = "Parallel" /\ built.ok
  /\ \E inputs \in ParallelInputs, a \in ParallelArgs :
        ParallelForward(inputs, a.weights, a.state, a.rng)

SpecBuild == InitBuild /\ [][NextBuild]_vars

----------------------------------------------------------------------------
(* Select under test: Sel = Select(idxs, n_in) and S = Serial(Sel), for    *)
(* every list of at most MaxIdx + 2 indices out of 0 .. MaxIdx, called     *)
(* once on its own or run once as the sublayer of S.                       *)

MaxIdx == 2

IdxLists == UNION {[1..k -> 0..MaxIdx] : k \in 0..(MaxIdx + 2)}

\* The n_in argument of Select: not given, or 2.
GivenNIn == {<<>>, <<2>>}

\* Inputs: one bare tensor, or a tuple of 1 .. MaxIdx + 2 tensors.
SelectInputs ==
  {Tensor(1)} \cup {Tup([i \in 1..k |-> Tensor(i)]) : k \in 1..(MaxIdx + 2)}

InitSelect ==
  \E idxs \in IdxLists, given \in GivenNIn :
     \E r \in {SelectNew("Sel", idxs, given)} :
        /\ built = [class |-> "Select", args |-> <<idxs, given>>,
                    ok |-> ~r.raised,
                    error |-> IF r.raised THEN Raise("ValueError") ELSE PyNone,
                    select |-> r.select]
        /\ sublayers = IF r.raised THEN Constructed({}, <<>>)
                       ELSE Constructed({"Sel", "S"}, [S |-> <<"Sel">>])
        /\ InitInstances

\* layer(x): Layer.__call__ with the cached weights and state.
SelectCall(l, x) ==
  /\ nops = 0
  /\ \E r \in {_forward_internal(l, x, _weights[l], _state[l], None, Heap)} :
     /\ nops' = 1
     /\ Store(r.h)
     /\ last' = [Blank EXCEPT !.op = "call", !.layer = l, !.x = x,
                   !.weights = _weights[l], !.state = _state[l],
                   !.ok = ~IsRaise(r.out), !.out = r.out, !.ret_s = r.st,
                   !.trace = r.trace]
     /\ UNCHANGED <<sublayers, built, issued>>

NextSelect ==
  /\ built.ok
  /\ \/ \E x \in SelectInputs : SelectCall("Sel", x)
     \/ \E xs \in SelectInputs :
           SerialForward(xs, UserWeights("S"), UserState("S"), None)

SpecSelect == InitSelect /\ [][NextSelect]_vars

----------------------------------------------------------------------------
(* Branch and Residual under test: Br = Branch(args) for every list of two *)
(* to MaxBranch arguments, or Res = Serial(Residual(layers, shortcut)),    *)
(* run once through forward_with_state.                                    *)

MaxBranch == 3

BranchObjects == {LayerObj(l) : l \in {"G", "Swap", "Dup", "Gate"}} \cup {PyNone}

BranchArgLists == UNION {[1..k -> BranchObjects] : k \in 2..MaxBranch}

\* The layers and the shortcut of a Residual.
ResidualBodies ==
  {<<LayerObj("G")>>, <<LayerObj("F")>>, <<LayerObj("G"), LayerObj("F")>>,
   <<LayerObj("Dup"), LayerObj("Add")>>}
Shortcuts == {PyNone, LayerObj("G"), LayerObj("F")}

\* Inputs: one bare tensor, or a tuple of 2 .. 4 tensors.
BranchInputs == {Tensor(1)} \cup {Tup([i \in 1..k |-> Tensor(i)]) : k \in 2..4}

InitBranch ==
  \E class \in {"Branch", "Residual"} :
    \E a \in IF class = "Branch"
               THEN {[layers |-> q, shortcut |-> PyNone] : q \in BranchArgLists}
               ELSE {[layers |-> q, shortcut |-> sc] :
                       q \in ResidualBodies, sc \in Shortcuts} :
      \E r \in {IF class = "Branch" THEN BranchNew("Br", a.layers)
                 ELSE ResidualNew("Res", a.layers, a.shortcut)} :
        /\ built = [class |-> class, args |-> <<a.layers, a.shortcut>>,
                    ok |-> ~r.raised,
                    error |-> IF r.raised THEN Raise("ValueError") ELSE PyNone,
                    select |-> r.select]
        /\ sublayers = Constructed(LeafLayers \cup DOMAIN r.subs
                                     \cup DOMAIN r.select, r.subs)
        /\ InitInstances

\* l.forward_with_state(xs, weights=weights, state=state, rng=rng) with one
\* weights and one state slot per sublayer at every depth.
TopForward(l, xs, rng) ==
  /\ nops = 0
  /\ \E r \in {forward_with_state(l, xs, UserWeights(l), UserState(l), rng, Heap)} :
     /\ nops' = 1
     /\ Store(r.h)
     /\ last' = [Blank EXCEPT !.op = "forward_with_state", !.layer = l,
                   !.x = xs, !.weights = UserWeights(l), !.state = UserState(l),
                   !.rng = rng, !.ok = ~IsRaise(r.out), !.out = r.out,
                   !.ret_s = r.st, !.trace = r.trace]
     /\ UNCHANGED <<sublayers, built, issued>>

NextBranch ==
  \/ /\ built.class = "Branch" /\ built.ok
     /\ \E xs \in BranchInputs : TopForward("Br", xs, None)
  \/ /\ built.class = "Residual" /\ built.ok
     /\ \E xs \in BranchInputs, rng \in {None, get_prng(7)} :
           TopForward("Res", xs, rng)

SpecBranch == InitBranch /\ [][NextBranch]_vars

----------------------------------------------------------------------------
(* Scan under test: Sc = Scan(layer) for the accumulate-sum layer and for  *)
(* Swap, run once over an array of at most MaxLen numbers out of           *)
(* 1 .. MaxLen with a carry of 0 or 1.                                     *)

MaxLen == 3

ScanArrays == {Array([i \in DOMAIN f |-> Num(f[i])]) :
                 f \in UNION {[1..k -> 1..MaxLen] : k \in 0..MaxLen}}

Carries == {Num(0), Num(1)}

\* After Scan(layer): the sublayer list is [layer] (Scan.__init__).
InitScan ==
  /\ sublayers \in {Constructed({"Acc", "Swap", "Sc"}, [Sc |-> <<layer>>]) :
                      layer \in {"Acc", "Swap"}}
  /\ InitFields

NextScan ==
  \E xs \in ScanArrays, carry \in Carries :
     TopForward("Sc", Tup(<<xs, carry>>), None)

SpecScan == InitScan /\ [][NextScan]_vars

----------------------------------------------------------------------------
(* SerialWithSideOutputs under test: Sw is made of every list of one to    *)
(* MaxSide layers with every number of side outputs a layer can give, the  *)
(* same for all layers (an int) or one per layer (a list), and run once.   *)

MaxSide == 2

SideLeaves == {"Cell", "G", "Swap", "Drop"}

\* The layers with the numbers of side outputs: an int, which stands for
\* the list of as many, or a list of one int per layer.
SideArgs ==
  {[layers |-> q, n_side_outputs |-> n] :
     q \in UNION {[1..k -> SideLeaves] : k \in 1..MaxSide},
     n \in UNION {[1..k -> 0..2] : k \in 1..MaxSide}}
    \cup {[layers |-> q, n_side_outputs |-> Replicated(n, q)] :
            q \in UNION {[1..k -> SideLeaves] : k \in 1..MaxSide},
            n \in 0..2}

\* Inputs: one bare tensor, or a tuple of 2 .. 2 * MaxSide + 1 tensors.
SideInputs ==
  {Tensor(1)} \cup {Tup([i \in 1..k |-> Tensor(i)]) : k \in 2..(2 * MaxSide + 1)}

InitSide ==
  \E a \in {b \in SideArgs :
               /\ Len(b.layers) = Len(b.n_side_outputs)
               /\ \A i \in 1..Len(b.layers) :
                     b.n_side_outputs[i] <= LeafArity(b.layers[i])[2]} :
    \E r \in {SerialWithSideOutputsNew("Sw", a.layers, a.n_side_outputs)} :
       /\ built = [class |-> "SerialWithSideOutputs",
                   args |-> <<a.layers, a.n_side_outputs>>,
                   ok |-> ~r.raised,
                   error |-> IF r.raised THEN Raise("ValueError") ELSE PyNone,
                   select |-> r.select]
       /\ sublayers = Constructed(SideLeaves \cup DOMAIN r.subs
                                    \cup DOMAIN r.select, r.subs)
       /\ InitInstances

NextSide ==
  /\ built.ok
  /\ \E xs \in SideInputs : TopForward("Sw", xs, None)

SpecSide == InitSide /\ [][NextSide]_vars

----------------------------------------------------------------------------
(* Nested combinators under test: a tree of Serial, Parallel and Scan over  *)
(* leaves, whose root is initialized and called at most MaxOps times.       *)

\* The sublayer lists of the trees: Serial(Scan(Acc)),
\* Serial(Parallel(G, Scan(Swap))), Scan(Serial(Swap, F)),
\* Parallel(F, Serial(G, F)) and Serial(Serial(Swap, F), G).
NestTrees ==
  {("S" :> <<"Sc">>) @@ ("Sc" :> <<"Acc">>),
   ("S" :> <<"P">>) @@ ("P" :> <<"G", "Sc">>) @@ ("Sc" :> <<"Swap">>),
   ("Sc" :> <<"Sub1">>) @@ ("Sub1" :> <<"Swap", "F">>),
   ("P" :> <<"F", "Sub1">>) @@ ("Sub1" :> <<"G", "F">>),
   ("S" :> <<"Sub1", "G">>) @@ ("Sub1" :> <<"Swap", "F">>)}

NestInstances == {"F", "G", "Swap", "Acc", "S", "P", "Sc", "Sub1"}

\* The root of the tree: the combinator that is no one's sublayer.
NestRoot ==
  CHOOSE l \in DOMAIN sublayers :
    /\ sublayers[l] # <<>>
    /\ \A k \in DOMAIN sublayers :
         \A i \in 1..Len(sublayers[k]) : sublayers[k][i] # l

\* Inputs of a call: one array, or a tuple of one to three arrays of two
\* numbers.
NestInputs ==
  {Array(<<Num(1), Num(2)>>)}
    \cup {Tup([i \in 1..k |-> Array(<<Num(i), Num(i + 1)>>)]) : k \in 1..3}

\* Input signatures of an init: one ShapeDtype, or a tuple of one to three
\* ShapeDtypes of shape (2, 3).
NestSignatures ==
  {Val("ShapeDtype", 1, <<Num(2), Num(3)>>)}
    \cup {Tup([i \in 1..k |-> Val("ShapeDtype", i, <<Num(2), Num(3)>>)]) :
            k \in 1..3}

InitNest ==
  /\ sublayers \in {Constructed(NestInstances, subs) : subs \in NestTrees}
  /\ InitFields

NextNest ==
  \/ \E sig \in NestSignatures : LayerInit(NestRoot, sig, None)
  \/ \E x \in NestInputs, given \in BOOLEAN :
        Call(NestRoot, x, given, given, None)
  \/ \E x \in NestInputs : TopForward(NestRoot, x, None)

SpecNest == InitNest /\ [][NextNest]_vars

----------------------------------------------------------------------------
(* Properties of Layer: init, the cache, the seed cursor (under Spec) *)

\* C1: the first successful init of an instance returns the pair that
\* new_weights_and_state computed and caches both on the instance; every
\* later init of the instance returns EMPTY_WEIGHTS with the state that
\* new_weights_and_state computed in that call, and leaves the instance's
\* cached weights and cached state as they were.
C1_InitOnce ==
  [][(last'.op = "init" /\ last'.ok) =>
       IF ~_init_finished[last'.layer]
         THEN /\ last'.ret_w = last'.nws_w
              /\ last'.ret_s = last'.nws_s
              /\ _weights'[last'.layer] = last'.nws_w
              /\ _state'[last'.layer] = last'.nws_s
         ELSE /\ last'.ret_w = EMPTY_WEIGHTS
              /\ last'.ret_s = last'.nws_s
              /\ _weights'[last'.layer] = _weights[last'.layer]
              /\ _state'[last'.layer] = _state[last'.layer]]_vars

\* F was initialized against one signature and then again against another:
\* the second call returned EMPTY_WEIGHTS and a state computed for the second
\* signature, and the cache still holds what the first call stored.
C1_Witness ==
  /\ last.op = "init" /\ last.ok /\ ~last.first /\ last.layer = "F"
  /\ last.sig = ShapeDtype(2)
  /\ last.ret_w = EMPTY_WEIGHTS
  /\ last.ret_s = NewState("F", ShapeDtype(2))
  /\ _weights["F"] = NewWeights("F", ShapeDtype(1))
  /\ _state["F"] = NewState("F", ShapeDtype(1))

C3_KeysDistinct ==
  \A l \in DOMAIN sublayers :
    /\ \A i, j \in 1..Len(issued[l]) : i # j => issued[l][i] # issued[l][j]
    /\ \A i \in 1..Len(issued[l]) :
         /\ issued[l][i] # _rng[l]
         /\ issued[l][i] \notin assigned[l]

\* key is obtained from seed by one or more splits.
IsSplitOf(key, seed) ==
  /\ Len(key) > Len(seed)
  /\ SubSeq(key, 1, Len(seed)) = seed

\* C4: after a successful init(sig, seed) of the root of a never-seeded tree,
\* every descendant at every depth holds a cursor split from the seed given,
\* and none holds the default seed.
C4_SeededAtEveryDepth ==
  (last.op = "init" /\ last.ok /\ last.fresh /\ last.seed # None) =>
     \A k \in Subtree(last.layer) \ {last.layer} :
        /\ IsSplitOf(_rng[k], last.seed)
        /\ _rng[k] # get_prng(DefaultSeed)

\* C5: once a layer's seed cursor is not None, no init replaces it; only the
\* layer's own new_rng/new_rngs change it.
C5_CursorSetOnce ==
  [][\A l \in DOMAIN sublayers :
       (_rng[l] # None /\ _rng'[l] # _rng[l]) =>
          (last'.op \in {"new_rng", "new_rngs"} /\ last'.layer = l)]_vars

\* C6: after the first successful init(sig) of a layer its input_signature
\* is sig, and an input_signature that is set is never changed.
C6_SignatureSetByInit ==
  [][/\ (last'.op = "init" /\ last'.ok /\ last'.first)
          => _input_signature'[last'.layer] = last'.sig
     /\ \A l \in DOMAIN sublayers :
          _input_signature[l] # PyNone
            => _input_signature'[l] = _input_signature[l]]_vars

----------------------------------------------------------------------------
(* Properties of Serial: arity, the stack, packaging (under SpecSerial) *)

\* The items a stack value holds: those of a tuple or list, or the one value.
StackItems(v) == IF IsSeq(v) THEN v.items ELSE <<v>>

\* v is n values packaged by the 0/1/>1 rule: the empty tuple, the bare value,
\* or a tuple of n items.
Packaged(v, n) ==
  IF n = 1 THEN ~IsSeq(v) ELSE v.tag = "tuple" /\ Len(v.items) = n

\* The n values that v packages.
Unpacked(v, n) == IF n = 1 THEN <<v>> ELSE v.items

\* S.forward_with_state was called with one weights and one state slot per
\* sublayer and with at least k input items, packaged by the rule (one item
\* is given bare to a Serial of one input, never to any other).
SerialCalled(k) ==
  /\ last.op = "forward_with_state"
  /\ last.weights = UserWeights("S")
  /\ last.state = UserState("S")
  /\ _count_items(last.x) >= k
  /\ Packaged(last.x, _count_items(last.x))
  /\ n_in("S") # 1 => last.x.tag = "tuple"

\* C7: a Serial with at least one sublayer, run on exactly n_in inputs,
\* returns the empty tuple when n_out = 0, the bare value when n_out = 1 and
\* a tuple of n_out items when n_out > 1.
C7_SerialPackaging ==
  (/\ sublayers["S"] # <<>>
   /\ SerialCalled(n_in("S"))
   /\ _count_items(last.x) = n_in("S")
   /\ last.ok)
  => Packaged(last.out, n_out("S"))

RECURSIVE SumIn(_, _), SumOut(_, _), Runs(_, _, _)

\* n_in, n_out summed over the first k layers of q.
SumIn(q, k) == IF k = 0 THEN 0 ELSE SumIn(q, k - 1) + n_in(q[k])
SumOut(q, k) == IF k = 0 THEN 0 ELSE SumOut(q, k - 1) + n_out(q[k])

\* The running total at layer k: after its n_in is added, before its n_out
\* is subtracted.
PrefixTotal(q, k) == SumIn(q, k) - SumOut(q, k - 1)

\* From layer i on, a stack of the given depth always holds the items the
\* next layer takes.
Runs(q, i, depth) ==
  \/ i > Len(q)
  \/ /\ depth >= n_in(q[i])
     /\ Runs(q, i + 1, depth - n_in(q[i]) + n_out(q[i]))

\* C8: for a non-empty list of sublayers, Serial's n_in is the maximum of the
\* running total over the prefixes and its n_out is that maximum minus the
\* final running total; n_in is the least stack depth with which no sublayer
\* needs more items than the stack holds.
C8_SerialArity ==
  sublayers["S"] # <<>> =>
    /\ \E k \in 1..Len(sublayers["S"]) :
         n_in("S") = PrefixTotal(sublayers["S"], k)
    /\ \A k \in 1..Len(sublayers["S"]) :
         n_in("S") >= PrefixTotal(sublayers["S"], k)
    /\ n_out("S") = n_in("S") - (SumIn(sublayers["S"], Len(sublayers["S"]))
                                 - SumOut(sublayers["S"], Len(sublayers["S"])))
    /\ Runs(sublayers["S"], 1, n_in("S"))
    /\ \A d \in 0..(n_in("S") - 1) : ~Runs(sublayers["S"], 1, d)

\* Serial(Drop, Swap), whose running total peaks at the second layer, was
\* built with n_in = 3 and n_out = 2 and ran on three inputs to two outputs.
C8_Witness ==
  /\ sublayers["S"] = <<"Drop", "Swap">>
  /\ n_in("S") = 3 /\ n_out("S") = 2
  /\ SerialCalled(3) /\ last.ok
  /\ last.x = Tup(<<Tensor(1), Tensor(2), Tensor(3)>>)
  /\ last.out = Tup(<<Tensor(3), Tensor(2)>>)

\* C9: in a Serial forward pass on at least n_in inputs every sublayer is
\* handed exactly its n_in items from the top of the stack, and the stack
\* after it is its outputs followed by the items below the consumed ones,
\* unchanged and in order.
C9_StackDiscipline ==
  (sublayers["S"] # <<>> /\ SerialCalled(n_in("S"))) =>
    /\ last.ok
    /\ Len(last.trace) = Len(sublayers["S"])
    /\ \A i \in 1..Len(last.trace) :
         /\ Len(StackItems(last.trace[i].before)) >= n_in(last.trace[i].layer)
         /\ Packaged(last.trace[i].inputs, n_in(last.trace[i].layer))
         /\ Unpacked(last.trace[i].inputs, n_in(last.trace[i].layer))
              = SubSeq(StackItems(last.trace[i].before), 1,
                       n_in(last.trace[i].layer))
         /\ Packaged(last.trace[i].outputs, n_out(last.trace[i].layer))
         /\ StackItems(last.trace[i].after)
              = Unpacked(last.trace[i].outputs, n_out(last.trace[i].layer))
                \o SubSeq(StackItems(last.trace[i].before),
                          n_in(last.trace[i].layer) + 1,
                          Len(StackItems(last.trace[i].before)))

\* C10 (as stated): a Serial with no sublayers has n_in = n_out = 1 and its
\* forward_with_state returns its input and its state unchanged for every
\* input and every state.
C10_EmptySerialIdentity ==
  sublayers["S"] = <<>> =>
    /\ n_in("S") = 1 /\ n_out("S") = 1
    /\ last.op = "forward_with_state" =>
         (last.ok /\ last.out = last.x /\ last.ret_s = last.state)

\* C10 (amended): a Serial with no sublayers has n_in = n_out = 1 and its
\* forward_with_state returns its input and its state unchanged for every
\* state and every input that holds at least one item.
C10_EmptySerialIdentityOnInputs ==
  sublayers["S"] = <<>> =>
    /\ n_in("S") = 1 /\ n_out("S") = 1
    /\ (last.op = "forward_with_state" /\ _count_items(last.x) >= 1) =>
         (last.ok /\ last.out = last.x /\ last.ret_s = last.state)

\* Serial() was run on a pair of tensors with a state that is no sequence and
\* returned both as they were.
C10_Witness ==
  /\ sublayers["S"] = <<>>
  /\ last.op = "forward_with_state" /\ last.ok
  /\ last.x = Tup(<<Tensor(1), Tensor(2)>>)
  /\ last.state = Val("state", 0, <<>>)
  /\ last.out = last.x
  /\ last.ret_s = last.state

\* The lengths of the weights and of the state given to S, both sequences,
\* are not both the number of S's sublayers.
LengthMismatch ==
  /\ last.op = "forward_with_state"
  /\ IsSeq(last.weights) /\ IsSeq(last.state)
  /\ \/ Len(last.weights.items) # Len(sublayers["S"])
     \/ Len(last.state.items) # Len(sublayers["S"])

\* No forward pass has reached any instance: every cache is as constructed.
NothingCached ==
  \A l \in DOMAIN sublayers :
     _weights[l] = EMPTY_WEIGHTS /\ _state[l] = EMPTY_STATE

\* C11 (as stated): a Serial forward with weights or state of another length
\* than the number of sublayers ends in an error, with no sublayer invoked
\* and no output, unless the Serial has exactly one sublayer.
C11_LengthMismatchFatal ==
  (LengthMismatch /\ Len(sublayers["S"]) # 1) =>
     (~last.ok /\ last.trace = <<>> /\ NothingCached)

\* C11 (amended): for a Serial of two or more sublayers such a forward ends
\* in an error, with no sublayer invoked and no output; a Serial of one
\* sublayer or of none does not reject weights or state for their length.
C11_LengthMismatchFatalFromTwo ==
  /\ (LengthMismatch /\ Len(sublayers["S"]) >= 2) =>
        (~last.ok /\ last.trace = <<>> /\ NothingCached)
  /\ (/\ LengthMismatch /\ Len(sublayers["S"]) <= 1
      /\ ~IsRaise(_validate_forward_inputs("S", last.x)))
     => last.out # Raise("ValueError")

\* Serial(G, G) was run with the empty tuple for weights and state: the call
\* raised ValueError before G was invoked.
C11_Witness ==
  /\ sublayers["S"] = <<"G", "G">>
  /\ LengthMismatch
  /\ last.weights = EMPTY_WEIGHTS
  /\ last.x = Tensor(1)
  /\ last.out = Raise("ValueError")
  /\ last.trace = <<>>
  /\ NothingCached

----------------------------------------------------------------------------
(* Properties of Parallel and of construction (under SpecBuild) *)

\* The instances' fields before any call.
FreshHeap ==
  [rng |-> [l \in DOMAIN sublayers |-> None],
   w |-> [l \in DOMAIN sublayers |-> EMPTY_WEIGHTS],
   s |-> [l \in DOMAIN sublayers |-> EMPTY_STATE],
   fin |-> [l \in DOMAIN sublayers |-> FALSE],
   sig |-> [l \in DOMAIN sublayers |-> PyNone],
   assigned |-> [l \in DOMAIN sublayers |-> {}]]

\* P.forward_with_state was called on a tuple of exactly n_in items with one
\* weights slot and one state slot per sublayer.
ParallelCalled ==
  /\ built.class = "Parallel" /\ built.ok
  /\ last.op = "forward_with_state"
  /\ last.weights = UserWeights("P")
  /\ last.state = UserState("P")
  /\ last.x.tag = "tuple" /\ Len(last.x.items) = n_in("P")

\* The span of sublayer i: the items after those of the sublayers before it,
\* as many as its n_in, a single one bare.
Span(i) ==
  LET q == sublayers["P"]
      start == SumIn(q, i - 1)
  IN IF n_in(q[i]) = 1 THEN last.x.items[start + 1]
     ELSE Tup(SubSeq(last.x.items, start + 1, start + n_in(q[i])))

\* The key of sublayer i: None without an rng, else the i-th of the split.
OwnRng(i) ==
  IF last.rng = None THEN None ELSE split(last.rng, Len(sublayers["P"]))[i]

\* Sublayer i applied on its own to its span, weights[i], state[i] and key.
Alone(i) ==
  forward_with_state(sublayers["P"][i], Span(i), last.weights.items[i],
                     last.state.items[i], OwnRng(i), FreshHeap)

RECURSIVE AloneOutputs(_)

\* The outputs of the first k sublayers, each applied on its own, in order.
AloneOutputs(k) ==
  IF k = 0 THEN <<>>
  ELSE AloneOutputs(k - 1)
         \o Unpacked(Alone(k).out, n_out(sublayers["P"][k]))

\* Values packaged by the 0/1/>1 rule.
Package(vs) == IF Len(vs) = 1 THEN vs[1] ELSE Tup(vs)

\* C12: a Parallel has at least two sublayers, its n_in and n_out are the sums
\* of theirs, and its forward pass on a tuple of n_in inputs is the sublayers
\* applied one by one, each to its own contiguous span (a single item bare)
\* with its own weights, state and key: it fails when one of them fails, and
\* else returns their outputs concatenated in order and packaged by the
\* 0/1/>1 rule, with the tuple of their states.
C12_ParallelSplitsAndConcatenates ==
  (built.class = "Parallel" /\ built.ok) =>
    LET q == sublayers["P"]
    IN /\ Len(q) >= 2
       /\ n_in("P") = SumIn(q, Len(q))
       /\ n_out("P") = SumOut(q, Len(q))
       /\ ParallelCalled =>
            IF \E i \in 1..Len(q) : IsRaise(Alone(i).out)
              THEN ~last.ok
              ELSE /\ last.ok
                   /\ last.out = Package(AloneOutputs(Len(q)))
                   /\ last.ret_s = Tup([i \in 1..Len(q) |-> Alone(i).st])
                   /\ \A i \in 1..Len(q) :
                         /\ last.trace[i].inputs = Span(i)
                         /\ last.trace[i].rng = OwnRng(i)
                   /\ last.rng # None =>
                         \A i, j \in 1..Len(q) : i # j => OwnRng(i) # OwnRng(j)

\* Parallel(Swap, F) ran on (t1, t2, t3) with an rng: Swap got (t1, t2), F got
\* t3 bare, the output is (t2, t1, F(t3)) and the state holds F's new state.
C12_Witness ==
  /\ ParallelCalled /\ last.ok /\ last.rng # None
  /\ sublayers["P"] = <<"Swap", "F">>
  /\ last.x = Tup(<<Tensor(1), Tensor(2), Tensor(3)>>)
  /\ last.out = Tup(<<Tensor(2), Tensor(1),
                      forward("F", Tensor(3), UserWeights("F"))>>)
  /\ last.ret_s = Tup(<<EMPTY_STATE, UpdatedState(UserState("F"))>>)

RECURSIVE HoldsNonLayer(_)

\* obj is an object that is no layer, or a list or tuple that holds one at
\* some depth.
HoldsNonLayer(obj) ==
  \/ obj = NonLayer
  \/ /\ IsSeq(obj)
     /\ \E i \in 1..Len(obj.items) : HoldsNonLayer(obj.items[i])

\* obj, once a list or tuple of layers is wrapped in a Serial, takes no input.
TakesNoInput(obj) ==
  \/ IsLayer(obj) /\ LeafArity(NameOf(obj))[1] = 0
  \/ /\ IsSeq(obj) /\ obj.items # <<>> /\ ~HoldsNonLayer(obj)
     /\ NewSerialNIn([i \in 1..Len(_deep_flatten(obj.items)) |->
                        NameOf(_deep_flatten(obj.items)[i])]) = 0

\* C13: the constructor raises ValueError and no combinator exists afterwards
\* when Parallel is given fewer than two sublayers, when Parallel is given a
\* sublayer that takes no input (a layer, or a list or tuple wrapped in a
\* Serial), and when Serial or Parallel is given an object that is no layer
\* at any depth of nested lists and tuples.
C13_MalformedConstructionFails ==
  (\/ built.class = "Parallel" /\ Len(built.args) < 2
   \/ /\ built.class = "Parallel"
      /\ \E i \in 1..Len(built.args) : TakesNoInput(built.args[i])
   \/ /\ built.class \in {"Serial", "Parallel"}
      /\ \E i \in 1..Len(built.args) : HoldsNonLayer(built.args[i]))
  => /\ ~built.ok
     /\ built.error = Raise("ValueError")
     /\ DOMAIN sublayers = LeafLayers
     /\ last = Blank

\* Serial(G, [G, object]) was called and raised: there is no Serial S.
C13_Witness ==
  /\ built.class = "Serial" /\ ~built.ok
  /\ built.args = <<LayerObj("G"), List(<<LayerObj("G"), NonLayer>>)>>
  /\ built.error = Raise("ValueError")
  /\ "S" \notin DOMAIN sublayers

\* The arguments are ones that Parallel takes: at least two, none that holds
\* an object that is no layer, none that takes no input.
WellFormed ==
  /\ built.class = "Parallel" /\ Len(built.args) >= 2
  /\ \A i \in 1..Len(built.args) :
        ~HoldsNonLayer(built.args[i]) /\ ~TakesNoInput(built.args[i])

\* C14: Parallel accepts None and [] among well-formed arguments and makes of
\* each a sublayer of one input and one output whose output is its input,
\* which shows in the Parallel's output at the sublayer's place; it makes of
\* a list or tuple of layers the Serial of those layers, which is run as the
\* sublayer.
C14_NoneAndListElements ==
  WellFormed =>
    /\ built.ok
    /\ \A i \in 1..Len(built.args) :
         LET q == sublayers["P"]
             obj == built.args[i]
         IN /\ (obj = PyNone \/ obj = List(<<>>)) =>
                 /\ n_in(q[i]) = 1 /\ n_out(q[i]) = 1
                 /\ (ParallelCalled /\ last.ok) =>
                       /\ last.trace[i].outputs = last.trace[i].inputs
                       /\ Unpacked(last.out, n_out("P"))[SumOut(q, i - 1) + 1]
                            = last.x.items[SumIn(q, i - 1) + 1]
            /\ (IsSeq(obj) /\ obj.items # <<>>) =>
                 /\ q[i] \in SerialLayers
                 /\ sublayers[q[i]] = SerialNew("S", obj.items).layers
                 /\ (\A j \in 1..Len(q) : j # i => q[j] # q[i])
                 /\ (ParallelCalled /\ last.ok) =>
                       last.trace[i].outputs
                         = SerialForwardWithState(
                             q[i], Span(i), last.weights.items[i],
                             last.state.items[i], OwnRng(i), FreshHeap).out

\* Parallel(None, [G, Dup]) ran on (t1, t2) and returned (t1, G(t2), G(t2)).
C14_Witness ==
  /\ ParallelCalled /\ last.ok
  /\ built.args = <<PyNone, List(<<LayerObj("G"), LayerObj("Dup")>>)>>
  /\ sublayers["Sub1"] = <<>> /\ sublayers["Sub2"] = <<"G", "Dup">>
  /\ last.x = Tup(<<Tensor(1), Tensor(2)>>)
  /\ last.out = Tup(<<Tensor(1), forward("G", Tensor(2), UserWeights("G")),
                      forward("G", Tensor(2), UserWeights("G"))>>)

----------------------------------------------------------------------------
(* Properties of Select (under SpecSelect) *)

C16_SingleIndexSelectUnwrapped ==
  (/\ built.class = "Select" /\ built.ok /\ Len(built.args[1]) = 1
   /\ last.op = "forward_with_state" /\ last.ok
   /\ last.x.tag = "tuple" /\ Len(last.x.items) >= 2
   /\ Len(last.x.items) >= n_in("Sel")
   /\ built.args[1][1] < n_in("Sel"))
  => LET selected == last.x.items[built.args[1][1] + 1]
         below == SubSeq(last.x.items, n_in("Sel") + 1, Len(last.x.items))
     IN IF below = <<>> THEN last.out = selected
        ELSE last.out = Tup(<<selected>> \o below)

----------------------------------------------------------------------------
(* Properties of Branch and Residual (under SpecBranch) *)

\* The first n of the inputs of the last call, a single one bare.
Prefix(n) ==
  IF n = 1 THEN StackItems(last.x)[1]
  ELSE Tup(SubSeq(StackItems(last.x), 1, n))

\* Layer i of the Branch applied on its own to the first inputs, as many as
\* it takes, with its slots of the weights and of the state.
BranchAlone(i) ==
  forward_with_state(sublayers["P"][i], Prefix(n_in(sublayers["P"][i])),
                     last.weights.items[2].items[i],
                     last.state.items[2].items[i], None, FreshHeap)

RECURSIVE BranchOutputs(_)

\* The outputs of the first k layers of the Branch, each applied on its own.
BranchOutputs(k) ==
  IF k = 0 THEN <<>>
  ELSE BranchOutputs(k - 1)
         \o Unpacked(BranchAlone(k).out, n_out(sublayers["P"][k]))

\* C17: a Branch of two or more layers has the greatest n_in of its layers as
\* n_in and the sum of their n_out as n_out; run on n_in inputs it returns,
\* concatenated in order, what each layer returns for the first inputs, as
\* many as the layer takes; Branch(F, G, H) with F of 1 -> 1, G of 3 -> 1 and
\* H of 2 -> 2 returns F(a), G(a, b, c), h1, h2 on (a, b, c); the output of a
\* None argument is the first input.
C17_BranchCopiesPrefix ==
  (built.class = "Branch" /\ built.ok) =>
    LET q == sublayers["P"]
        args == built.args[1]
        xs == StackItems(last.x)
    IN /\ Len(q) = Len(args) /\ Len(q) >= 2
       /\ \A i \in 1..Len(q) : n_in(q[i]) <= n_in("Br")
       /\ \E i \in 1..Len(q) : n_in(q[i]) = n_in("Br")
       /\ n_out("Br") = SumOut(q, Len(q))
       /\ (/\ last.op = "forward_with_state" /\ Len(xs) = n_in("Br")
           /\ Packaged(last.x, n_in("Br"))) =>
            /\ last.ok
            /\ last.out = Package(BranchOutputs(Len(q)))
            /\ \A i \in 1..Len(q) :
                  args[i] = PyNone =>
                    Unpacked(last.out, n_out("Br"))[SumOut(q, i - 1) + 1] = xs[1]
            /\ args = <<LayerObj("G"), LayerObj("Gate"), LayerObj("Swap")>> =>
                  last.out = Tup(<<forward("G", xs[1], UserWeights("G")),
                                  Val("gate", 0, <<xs[1], xs[2], xs[3]>>),
                                  xs[2], xs[1]>>)

\* Branch(G, Gate, Swap) ran on (t1, t2, t3) and returned the four outputs
\* G(t1), Gate(t1, t2, t3), t2, t1.
C17_Witness ==
  /\ built.class = "Branch"
  /\ built.args[1] = <<LayerObj("G"), LayerObj("Gate"), LayerObj("Swap")>>
  /\ last.op = "forward_with_state" /\ last.ok
  /\ last.x = Tup(<<Tensor(1), Tensor(2), Tensor(3)>>)
  /\ Len(last.out.items) = 4
  /\ last.out.items[2] = Val("gate", 0, <<Tensor(1), Tensor(2), Tensor(3)>>)
  /\ last.out.items[3] = Tensor(2) /\ last.out.items[4] = Tensor(1)

\* The weights and the state of the Parallel inside the Branch inside Res.
ResParallelWeights == last.weights.items[1].items[2]
ResParallelState == last.state.items[1].items[2]

\* The shortcut (None is the identity) and the body applied to x on their own.
ShortcutOf(x) ==
  IF built.args[2] = PyNone THEN x
  ELSE forward_with_state(NameOf(built.args[2]), x, ResParallelWeights.items[1],
                          ResParallelState.items[1], None, FreshHeap).out
BodyOf(x) ==
  forward_with_state("Body", x, ResParallelWeights.items[2],
                     ResParallelState.items[2], None, FreshHeap).out

\* C18: Serial(Residual(B, shortcut=S)) with B of one input and one output,
\* run on x, returns S(x) + B(x), which is x + B(x) when no shortcut is
\* given; run on a stack with items below x it returns the sum followed by
\* those items, unchanged.
C18_ResidualAdds ==
  (built.class = "Residual" /\ built.ok) =>
    /\ n_in("Body") = 1 /\ n_out("Body") = 1
    /\ n_in("Res") = 1 /\ n_out("Res") = 1
    /\ last.op = "forward_with_state" =>
         LET xs == StackItems(last.x)
             sum == Val("add", 0, <<ShortcutOf(xs[1]), BodyOf(xs[1])>>)
         IN /\ last.ok
            /\ built.args[2] = PyNone =>
                  sum = Val("add", 0, <<xs[1], BodyOf(xs[1])>>)
            /\ last.out = IF Len(xs) = 1 THEN sum
                          ELSE Tup(<<sum>> \o SubSeq(xs, 2, Len(xs)))

\* Serial(Residual(G, F, shortcut=G)) ran on (t1, t2): it returned
\* (G(t1) + F(G(t1)), t2).
C18_Witness ==
  /\ built.class = "Residual"
  /\ built.args = <<(<<LayerObj("G"), LayerObj("F")>>), LayerObj("G")>>
  /\ last.op = "forward_with_state" /\ last.ok
  /\ last.x = Tup(<<Tensor(1), Tensor(2)>>)
  /\ last.out.items[2] = Tensor(2)
  /\ last.out.items[1] =
       Val("add", 0,
           <<forward("G", Tensor(1), UserWeights("G")),
             forward("F", forward("G", Tensor(1), UserWeights("G")),
                     UserWeights("F"))>>)

----------------------------------------------------------------------------
(* Properties of Scan (under SpecScan) *)

RECURSIVE PrefixSum(_, _)

\* The sum of the first t numbers of seq.
PrefixSum(seq, t) == IF t = 0 THEN 0 ELSE PrefixSum(seq, t - 1) + seq[t].id

\* C19: Scan applies its sublayer once per element of the scanned array, in
\* order, to the element and the carry, the carry of a step being the one the
\* step before returned (the given one at the first step), and returns the
\* array of the steps' outputs followed by the last carry; with the
\* accumulate-sum sublayer the outputs are the prefix sums of the input on
\* top of the given carry, the final carry is the last output, and [1, 2, 3]
\* with carry 0 gives ([1, 3, 6], 6).
C19_ScanThreadsCarry ==
  last.op = "forward_with_state" =>
    LET seq == last.x.items[1].items
        T == Len(seq)
        c0 == last.x.items[2]
        sub == sublayers["Sc"][1]
        CarryInto(t) == IF t = 1 THEN c0 ELSE last.trace[t - 1].outputs.items[2]
    IN /\ last.ok
       /\ Len(last.trace) = T
       /\ \A t \in 1..T :
            /\ last.trace[t].layer = sub
            /\ last.trace[t].inputs = Tup(<<seq[t], CarryInto(t)>>)
            /\ last.trace[t].outputs
                 = forward(sub, last.trace[t].inputs, last.weights)
       /\ last.out =
            Tup(<<Array([t \in 1..T |-> last.trace[t].outputs.items[1]]),
                  CarryInto(T + 1)>>)
       /\ sub = "Acc" =>
            /\ last.out.items[1]
                 = Array([t \in 1..T |-> Num(c0.id + PrefixSum(seq, t))])
            /\ T > 0 => last.out.items[2] = last.out.items[1].items[T]
            /\ (seq = <<Num(1), Num(2), Num(3)>> /\ c0 = Num(0)) =>
                  last.out = Tup(<<Array(<<Num(1), Num(3), Num(6)>>), Num(6)>>)

\* Scan(add) ran on ([1, 2, 3], 0) and returned ([1, 3, 6], 6) in three steps.
C19_Witness ==
  /\ last.op = "forward_with_state" /\ last.ok
  /\ sublayers["Sc"] = <<"Acc">>
  /\ last.x = Tup(<<Array(<<Num(1), Num(2), Num(3)>>), Num(0)>>)
  /\ last.out = Tup(<<Array(<<Num(1), Num(3), Num(6)>>), Num(6)>>)
  /\ Len(last.trace) = 3

----------------------------------------------------------------------------
(* Properties of SerialWithSideOutputs (under SpecSide) *)

RECURSIVE SideRun(_)

\* The main stack and the side outputs after the first k layers, each layer
\* applied on its own to the items it takes from the top of the main stack:
\* of its outputs the last, as many as it was declared to put aside, join
\* the side outputs and the others go back on the main stack.
SideRun(k) ==
  IF k = 0 THEN [main |-> StackItems(last.x), side |-> <<>>]
  ELSE LET layer == built.args[1][k]
           keep == n_out(layer) - built.args[2][k]
           After(p) ==
             LET taken == IF n_in(layer) = 1 THEN p.main[1]
                          ELSE Tup(SubSeq(p.main, 1, n_in(layer)))
                 res == Unpacked(
                          forward_with_state(
                            layer, taken, last.weights.items[2 * k - 1],
                            last.state.items[2 * k - 1], None, FreshHeap).out,
                          n_out(layer))
             IN [main |-> SubSeq(res, 1, keep)
                            \o SubSeq(p.main, n_in(layer) + 1, Len(p.main)),
                 side |-> p.side \o SubSeq(res, keep + 1, Len(res))]
       IN The({After(p) : p \in {SideRun(k - 1)}})

\* C20: SerialWithSideOutputs makes a layer of every list of layers with
\* declared numbers of side outputs, and this layer, run on its n_in inputs,
\* returns the final main stack followed by the side outputs in layer order,
\* every layer having put aside as many outputs as declared and left the
\* others on the main stack; two layers of one input and two outputs with one
\* side output each return (x2, side1, side2) on x, with (x1, side1) the
\* outputs of the first for x and (x2, side2) those of the second for x1.
C20_SideOutputsFollowMainStack ==
  built.class = "SerialWithSideOutputs" =>
    /\ built.ok
    /\ (/\ last.op = "forward_with_state"
        /\ _count_items(last.x) = n_in("Sw")
        /\ Packaged(last.x, n_in("Sw"))) =>
         LET N == Len(built.args[1])
             x == last.x
         IN /\ last.ok
            /\ last.out = Package(SideRun(N).main \o SideRun(N).side)
            /\ (built.args = <<(<<"Cell", "Cell">>), (<<1, 1>>)>>) =>
                  last.out = Tup(<<Val("next", 0, <<Val("next", 0, <<x>>)>>),
                                  Val("side", 0, <<x>>),
                                  Val("side", 0, <<Val("next", 0, <<x>>)>>)>>)

RECURSIVE DocRun(_)

\* The main stack and the side outputs after the first k layers as the
\* docstring's general case has them: of a layer's result res the items
\* res[:n_side_outputs[i]] go back on top of the main stack and the items
\* res[n_side_outputs[i]:] join the side outputs.  ok is FALSE from the
\* layer on that finds fewer items on the main stack than it takes.
DocRun(k) ==
  IF k = 0 THEN [main |-> StackItems(last.x), side |-> <<>>, ok |-> TRUE]
  ELSE LET layer == built.args[1][k]
           back == built.args[2][k]
           After(p) ==
             LET taken == IF n_in(layer) = 1 THEN p.main[1]
                          ELSE Tup(SubSeq(p.main, 1, n_in(layer)))
                 res == Unpacked(
                          forward_with_state(
                            layer, taken, last.weights.items[2 * k - 1],
                            last.state.items[2 * k - 1], None, FreshHeap).out,
                          n_out(layer))
             IN IF ~p.ok \/ Len(p.main) < n_in(layer) THEN [p EXCEPT !.ok = FALSE]
                ELSE [main |-> SubSeq(res, 1, back)
                                 \o SubSeq(p.main, n_in(layer) + 1, Len(p.main)),
                      side |-> p.side \o SubSeq(res, back + 1, Len(res)),
                      ok |-> TRUE]
       IN The({After(p) : p \in {DocRun(k - 1)}})

\* C21: in the general case of SerialWithSideOutputs, with n_side_outputs a
\* list of one integer per layer, of each layer's result res the items
\* res[:n_side_outputs[i]] go back on the main stack and the items
\* res[n_side_outputs[i]:] join the side outputs, and the layer returns the
\* main stack followed by the side outputs.  Stated for the runs that return
\* two items or more, where every layer finds its inputs on that main stack.
C21_DocstringSplit ==
  (/\ built.class = "SerialWithSideOutputs"
   /\ built.ok
   /\ last.op = "forward_with_state"
   /\ last.ok
   /\ _count_items(last.x) = n_in("Sw")
   /\ Packaged(last.x, n_in("Sw"))
   /\ n_out("Sw") >= 2
   /\ DocRun(Len(built.args[1])).ok) =>
     LET r == DocRun(Len(built.args[1]))
     IN last.out = Package(r.main \o r.side)

----------------------------------------------------------------------------
(* Properties of error reports (under SpecNest) *)

\* The weights a layer's _forward_internal runs with, given the weights
\* argument: the cached ones for EMPTY_WEIGHTS.
EffectiveWeights(l, weights) ==
  IF weights = EMPTY_WEIGHTS THEN _weights[l] ELSE weights

RECURSIVE Culprit(_, _, _, _, _)

\* The layer whose own forward_with_state raised the exception in which
\* forward_with_state(l, x, weights, state, rng) ends, with the input it was
\* given: the sublayer that was being run when the exception came up, or a
\* layer below it, if that sublayer's forward_with_state raises on the inputs
\* handed to it, and otherwise l.
Culprit(l, x, weights, state, rng) ==
  LET r == forward_with_state(l, x, weights, state, rng, Heap)
      k == Len(r.trace) + 1
      sub == sublayers[l][k]
      rngs == _pop_rng_and_split(rng, Len(sublayers[l]))
      self == [layer |-> l, x |-> x]
      Below(inputs, w, s, g) ==
        IF IsRaise(inputs) THEN self
        ELSE IF IsRaise(forward_with_state(sub, inputs, w, s, g, Heap).out)
          THEN Culprit(sub, inputs, w, s, g)
        ELSE self
  IN IF sublayers[l] = <<>> \/ (k > Len(sublayers[l]) /\ l \notin ScanLayers)
       THEN self
     ELSE IF l \in ScanLayers
       THEN LET xs == SliceTo(x, 0 - n_carry)
                carry == IF k = 1 THEN SliceFrom(x, 0 - n_carry)
                         ELSE r.trace[k - 1].after
                st == IF k = 1 THEN state ELSE r.trace[k - 1].state
            IN IF xs.items = <<>> \/ k > Len(xs.items[1].items) THEN self
               ELSE Below(PyAdd(Tup([i \in 1..Len(xs.items) |->
                                       xs.items[i].items[k]]), carry),
                          weights, st, rng)
     ELSE IF \/ r.out.items[1].tag # "LayerError"
             \/ ~IsSeq(weights) \/ ~IsSeq(state)
             \/ k > Len(weights.items) \/ k > Len(state.items)
       THEN self
     ELSE IF l \in ParallelLayers
       THEN Below(_allot_to_sublayers(l, x).items[k],
                  EffectiveWeights(sub, weights.items[k]), state.items[k],
                  rngs[k])
     ELSE Below(_inputs_from_stack(
                  sub, IF k = 1 THEN x ELSE r.trace[k - 1].after),
                EffectiveWeights(sub, weights.items[k]), state.items[k],
                rngs[k])

\* The text (a LayerError's message) has the report of layer l failing in
\* function_name on input x: the line naming l's class and the function,
\* followed by the line of l's call site and the line of x's signature.
HasReport(text, l, function_name, x) ==
  \E i \in 1..(Len(text) - 2) :
     /\ text[i].tag \in {"Exception passing through layer", "LayerError"}
     /\ text[i].items = <<Word(ClassName(l)), Word(function_name)>>
     /\ text[i + 1] = Val("layer created in file", 0, <<_caller(l)>>)
     /\ text[i + 2] = Val("layer input shapes", 0, <<signature(x)>>)

\* C22: an exception raised by a method of a layer at any depth reaches the
\* caller of the root as a LayerError that carries the class name of the
\* layer whose method failed, the operation, the call site where that layer
\* was constructed and its input signature.  Stated for calls of the root:
\* the exception that ends the call is a LayerError whose message has the
\* report of the layer whose forward_with_state raised.
C22_LayerErrorNamesFailingLayer ==
  (last.op = "call" /\ ~last.ok) =>
     /\ last.out.items[1].tag = "LayerError"
     /\ \E c \in {Culprit(last.layer, last.x, last.weights,
                          last.state, last.rng)} :
           HasReport(last.out.items[1].items, c.layer, "_forward_internal",
                     c.x)

----------------------------------------------------------------------------
(* Properties of input validation (under SpecNest).                        *)

\* The Serial l has sublayers and x holds fewer inputs than l.n_in.
TooFewInputs(l, x) ==
  l \in SerialLayers /\ sublayers[l] # <<>> /\ _count_items(x) < n_in(l)

\* The error the validation raises for x: TypeError when x is no tuple and
\* n_in is not 1, ValueError otherwise.
ArityError(l, x) ==
  IF x.tag # "tuple" /\ n_in(l) # 1 THEN "TypeError" ELSE "ValueError"

\* No sublayer of l was invoked in the step and the cached weights and state
\* of every layer below l are those of before.
SublayersUntouched(l) ==
  /\ last'.trace = <<>>
  /\ \A s \in Subtree(l) \ {l} :
        _weights'[s] = _weights[s] /\ _state'[s] = _state[s]

\* C23 as stated: a Serial with sublayers given fewer inputs than its n_in,
\* through a call of the instance or through forward_with_state, raises
\* TypeError (input no tuple and n_in # 1) or ValueError (too few items),
\* before any sublayer is invoked, and no sublayer's cache changes.
C23_TooFewInputsRaiseTypeOrValueError ==
  [][(/\ last'.op \in {"call", "forward_with_state"}
      /\ TooFewInputs(last'.layer, last'.x))
       => /\ last'.out = Raise(ArityError(last'.layer, last'.x))
          /\ SublayersUntouched(last'.layer)]_vars

\* C23 (amended): forward_with_state raises the TypeError or ValueError
\* itself; a call of the instance raises a LayerError whose traceback ends in
\* that TypeError or ValueError.  In both cases no sublayer has been invoked
\* and no sublayer's cached weights or state change.
C23_TooFewInputsReported ==
  [][(/\ last'.op \in {"call", "forward_with_state"}
      /\ TooFewInputs(last'.layer, last'.x))
       => /\ ~last'.ok
          /\ last'.op = "forward_with_state"
                => last'.out = Raise(ArityError(last'.layer, last'.x))
          /\ last'.op = "call"
                => /\ last'.out.items[1].tag = "LayerError"
                   /\ \E text \in {last'.out.items[1].items} :
                         text[Len(text)]
                           = Val(ArityError(last'.layer, last'.x), 0, <<>>)
          /\ SublayersUntouched(last'.layer)]_vars

\* An initialised Serial, whose sublayers hold cached weights, was called
\* with too few inputs and the call ended in a LayerError.
C23_Witness ==
  /\ last.op = "call" /\ TooFewInputs(last.layer, last.x) /\ ~last.ok
  /\ last.out.items[1].tag = "LayerError"
  /\ _init_finished[last.layer]
  /\ \E s \in Subtree(last.layer) \ {last.layer} :
        _weights[s] # EMPTY_WEIGHTS

----------------------------------------------------------------------------
(* The stack-height law of Serial (under SpecSerial).                      *)

\* C24: a Serial of sublayers of any arities, run on exactly n_in items,
\* runs every sublayer; before each sublayer the stack holds at least the
\* sublayer's n_in items, after it the stack holds n_in fewer and n_out more
\* items with the sublayer's outputs on top, and the final stack holds
\* exactly n_out items.  A bare value counts as a stack of one item and the
\* empty tuple as a stack of none.
C24_StackHeightLaw ==
  (/\ sublayers["S"] # <<>>
   /\ SerialCalled(n_in("S"))
   /\ _count_items(last.x) = n_in("S"))
  => /\ last.ok
     /\ Len(last.trace) = Len(sublayers["S"])
     /\ \A i \in 1..Len(last.trace) :
          \E e \in {last.trace[i]} :
             /\ _count_items(e.before) >= n_in(e.layer)
             /\ _count_items(e.after)
                  = _count_items(e.before) - n_in(e.layer) + n_out(e.layer)
             /\ SubSeq(StackItems(e.after), 1, n_out(e.layer))
                  = StackItems(e.outputs)
     /\ _count_items(last.out) = n_out("S")

----------------------------------------------------------------------------
(* Every sublayer runs once (under SpecSerial).                            *)

\* C25: when forward_with_state of a Serial of k >= 1 sublayers returns
\* without error, every sublayer has been invoked exactly once, in list
\* order, the i-th with weights[i] and the i-th key of the split rng (None
\* without an rng), and the returned state is the list of the k states the
\* sublayers returned; also for k = 1 and the empty tuple as weights or
\* state.
C25_EverySublayerInvokedOnce ==
  (/\ last.op = "forward_with_state" /\ last.layer = "S"
   /\ Len(sublayers["S"]) >= 1
   /\ last.ok)
  => \E k \in {Len(sublayers["S"])} :
       /\ Len(last.trace) = k
       /\ \A i \in 1..k :
            /\ last.trace[i].layer = sublayers["S"][i]
            /\ last.trace[i].weights = last.weights.items[i]
            /\ last.trace[i].rng = _pop_rng_and_split(last.rng, k)[i]
       /\ last.ret_s = List([i \in 1..k |-> last.trace[i].state])

----------------------------------------------------------------------------
(* Properties of initialization at depth (under SpecNest).                 *)

RECURSIVE ProducedBy(_, _, _)

\* v is a value the initializer of layer l produces as its weights (kind
\* "weights") or state (kind "state"): for a leaf the value new_weights or
\* new_state makes, for a Serial a list and for a Parallel a tuple with one
\* such value per sublayer (the empty tuple for a sublayer initialised
\* before), for a Scan what its sublayer's initializer produces.
ProducedBy(l, kind, v) ==
  IF l \in ScanLayers THEN ProducedBy(sublayers[l][1], kind, v)
  ELSE IF l \in SerialLayers \cup ParallelLayers
    THEN IF l \in ParallelLayers /\ sublayers[l] = <<>>
           THEN v = EMPTY_WEIGHTS
         ELSE /\ v.tag = (IF l \in SerialLayers THEN "list" ELSE "tuple")
              /\ Len(v.items) = Len(sublayers[l])
              /\ \A i \in 1..Len(v.items) :
                    \/ kind = "weights" /\ v.items[i] = EMPTY_WEIGHTS
                    \/ ProducedBy(sublayers[l][i], kind, v.items[i])
  ELSE \E made \in {IF kind = "weights" THEN NewWeights(l, PyNone)
                     ELSE NewState(l, PyNone)} :
         IF made.tag = "tuple" THEN v = made
         ELSE v.tag = made.tag /\ v.id = made.id

\* Layer l has been through its own init: the latch is set and the cache
\* holds weights and state of the initializer's making.
Initialised(l) ==
  /\ _init_finished[l]
  /\ ProducedBy(l, "weights", _weights[l])
  /\ ProducedBy(l, "state", _state[l])

\* C26: after a successful first init of the root every instance reachable
\* through sublayers, the sublayer of a Scan included, has been initialised
\* through its own init: its latch is set and its cached weights and state
\* are those its initializer produced.
C26_EveryReachableLayerInitialised ==
  (last.op = "init" /\ last.ok /\ last.first)
    => \A l \in Subtree(last.layer) : Initialised(l)

----------------------------------------------------------------------------
(* Abstract forward and the cache (under Spec).                            *)

RECURSIVE Concrete(_)

\* No leaf of the weights value v is a signature standing in for weights.
Concrete(v) ==
  IF v.tag = "weights" THEN TRUE
  ELSE IF v.tag = "ShapeDtype" THEN FALSE
  ELSE \A i \in 1..Len(v.items) : Concrete(v.items[i])

\* C27: the abstract forward passes of shape inference leave the cached
\* weights and the cached state of every layer as they were, and after a
\* successful first init of a root the cached weights of every layer of its
\* tree are concrete values, never signatures.
C27_AbstractForwardLeavesCache ==
  [][/\ (last'.op = "set_input_signature" /\ last'.ok)
          => (_weights' = _weights /\ _state' = _state)
     /\ (last'.op = "init" /\ last'.ok /\ last'.first)
          => \A l \in Subtree(last'.layer) : Concrete(_weights'[l])]_vars

----------------------------------------------------------------------------
(* Weight sharing (under SpecSerial).                                      *)

\* The weights the leaf of trace entry e computed its output with.
WeightsUsed(e) == e.outputs.items[2]

\* C28: when one instance with weights stands at positions i < j of a
\* Serial and the pass hands weights to position i and EMPTY_WEIGHTS to
\* position j, the instance at position j computes with exactly the weights
\* handed to position i.
C28_SharedInstanceUsesFirstWeights ==
  (last.op = "forward_with_state" /\ last.layer = "S" /\ last.ok)
  => \A i \in 1..Len(last.trace), j \in 1..Len(last.trace) :
       (/\ i < j
        /\ last.trace[i].layer = last.trace[j].layer
        /\ last.trace[i].layer \notin Decorated
        /\ last.trace[i].weights # EMPTY_WEIGHTS
        /\ last.trace[j].weights = EMPTY_WEIGHTS)
       => /\ WeightsUsed(last.trace[j]) = last.trace[i].weights
          /\ WeightsUsed(last.trace[i]) = last.trace[i].weights

\* Serial(G, G) ran with the weights [w, ()]: both positions computed with w.
C28_Witness ==
  /\ sublayers["S"] = <<"G", "G">>
  /\ last.op = "forward_with_state" /\ last.ok
  /\ last.weights = List(<<UserWeights("G"), EMPTY_WEIGHTS>>)
  /\ Len(last.trace) = 2
  /\ last.trace[2].weights = EMPTY_WEIGHTS
  /\ WeightsUsed(last.trace[2]) = UserWeights("G")
  /\ UserWeights("G") # EMPTY_WEIGHTS

----------------------------------------------------------------------------
(* Scan with an axis and a carry count under test: Sc = Scan(layer, axis,  *)
(* n_carry) for a sublayer of two inputs, initialised on two signatures    *)
(* or run once on two arrays of the same length.                           *)

\* Scan's sublayers: Swap, and Sub1 = Serial(F, Swap, G), whose weights tell
\* the signatures F and G were initialised with.
CarryLayers == {"Swap", "Sub1"}

\* The arguments (layer, axis, n_carry) of Scan.
CarryArgs ==
  {<<layer, axis_, c>> : layer \in CarryLayers, axis_ \in {0, 1, -1, -2},
                         c \in 0..2}

\* Shapes of rank two and three with dimensions that differ.
CarryShapes == {<<Num(2), Num(3)>>, <<Num(2), Num(3), Num(4)>>}

CarrySignatures ==
  {Tup(<<Val("ShapeDtype", 1, s1), Val("ShapeDtype", 2, s2)>>) :
     s1 \in CarryShapes, s2 \in CarryShapes}

\* Pairs of arrays of the same length.
CarryInputs ==
  UNION {{Tup(<<Array([i \in 1..T |-> Num(f[i])]),
                Array([i \in 1..T |-> Num(10 + g[i])])>>) :
            f \in [1..T -> 1..2], g \in [1..T -> 1..2]} : T \in 1..2}

InitCarry ==
  \E a \in CarryArgs :
     /\ built = [class |-> "Scan", args |-> a, ok |-> TRUE, error |-> PyNone,
                 select |-> <<>>]
     /\ sublayers = Constructed({"F", "G", "Swap", "Sub1", "Sc"},
                                ("Sc" :> <<a[1]>>)
                                  @@ ("Sub1" :> <<"F", "Swap", "G">>))
     /\ InitInstances

NextCarry ==
  \/ \E sig \in CarrySignatures : LayerInit("Sc", sig, None)
  \/ \E xs \in CarryInputs : TopForward("Sc", xs, None)

SpecCarry == InitCarry /\ [][NextCarry]_vars

----------------------------------------------------------------------------
(* Properties of Scan's split into scanned inputs and carry (under         *)
(* SpecCarry).                                                             *)

\* The shape without its axis a, an axis below 0 counted from the end.
WithoutAxis(shape, a) ==
  LET a0 == IF a < 0 THEN a + Len(shape) ELSE a
  IN [i \in 1..(Len(shape) - 1) |-> IF i <= a0 THEN shape[i] ELSE shape[i + 1]]

\* The signature sd of a scanned input as the sublayer is to see it.
Sliced(sd) == Val("ShapeDtype", sd.id, WithoutAxis(sd.items, axis))

\* The signatures F and G of Sub1 were initialised with, read off the
\* weights init returned: those of Sub1's first and second input.
SeenSignatures ==
  <<last.ret_w.items[1].items[1], last.ret_w.items[3].items[1]>>

\* C29: of the n_in inputs of a Scan with carry count c the last c are the
\* carry and the first n_in - c are scanned.  In new_weights_and_state the
\* sublayer is initialised with the slices of the first n_in - c signatures
\* and the last c signatures as they are; in forward_with_state step t hands
\* the sublayer the t-th elements of the first n_in - c inputs followed by
\* the carry, which at the first step is the last c inputs.  With c = 0
\* every input is scanned.  Stated for axis 0.
C29_CarryCountSplitsInputs ==
  \E c \in {n_carry}, n \in {n_in("Sc")} :
    /\ (/\ last.op = "init" /\ last.first /\ axis = 0
         /\ sublayers["Sc"] = <<"Sub1">>)
        => /\ last.ok
           /\ \A p \in 1..n :
                SeenSignatures[p] = IF p <= n - c THEN Sliced(last.sig.items[p])
                                    ELSE last.sig.items[p]
    /\ (last.op = "forward_with_state" /\ axis = 0 /\ c < n)
        => /\ last.ok
           /\ Len(last.trace) = Len(last.x.items[1].items)
           /\ \A t \in 1..Len(last.trace) :
                /\ Len(StackItems(last.trace[t].inputs)) = n
                /\ \A p \in 1..(n - c) :
                      StackItems(last.trace[t].inputs)[p]
                        = last.x.items[p].items[t]
           /\ \A p \in (n - c + 1)..n :
                StackItems(last.trace[1].inputs)[p] = last.x.items[p]

\* C30: the signatures Scan derives for the sublayer have, for each scanned
\* input, exactly the scanned axis removed, for the axes 0, 1, -1 and -2,
\* and the carry signatures are passed on unchanged.  Stated for a carry
\* count of one or more.
C30_ScannedAxisRemoved ==
  \E c \in {n_carry}, n \in {n_in("Sc")} :
    (/\ last.op = "init" /\ last.first /\ c >= 1
     /\ sublayers["Sc"] = <<"Sub1">>)
    => /\ last.ok
       /\ \A p \in 1..n :
            SeenSignatures[p] = IF p <= n - c THEN Sliced(last.sig.items[p])
                                ELSE last.sig.items[p]

============================================================================
